---- MODULE Spec2Model ----
(***************************************************************************)
(* Batching, deduplication and flush-decision engine of the Trackingplan   *)
(* server-side GTM tag (src/template.js, version 2).                       *)
(*                                                                         *)
(* Every run of the tag ("invocation") executes initialize() to completion *)
(* and afterwards serves relayed tp_request messages through its listener. *)
(* All invocations share templateDataStorage, which offers only single-key *)
(* reads and writes.  Each action below is one such single-key access      *)
(* together with the purely local code around it, so that the interleaved  *)
(* specification Spec explores every schedule the host can produce, and    *)
(* SpecSeq explores the schedules in which operations do not overlap.      *)
(* SpecHash runs checkAndAddHash alone, past the capacity of the seen-set. *)
(* SpecOptions applies getOptions to every configuration, SpecSnippet runs *)
(* the monitoring snippet (src/trackingplan_snippet.js) in a monitored tag *)
(* and SpecV1 runs version 1 of the tag (src/template.tpl), which          *)
(* reconciles the queue when the response to a POST arrives.  SpecTags     *)
(* follows the tags object the records of one run share.                   *)
(***************************************************************************)
EXTENDS Integers, Sequences, FiniteSets, TLC

\* ------------------------------------------------------------------ bounds
NumInv == 2          \* concurrently running invocations
MaxRecords == 2      \* raw tracks created over a behaviour
MaxTicks == 2        \* clock advances over a behaviour
MaxBatchInput == 2   \* largest configured maxBatchSize
AgeSeconds == 2      \* the configured maxBatchAgeSeconds
MaxSamplingInput == 2 \* largest configured samplingRate
MaxToken == 1        \* largest request_start_time_ms token
MaxUuid == 1         \* distinct session ids generateUUID can mint
TickMs == 1000       \* milliseconds the clock advances per tick
T0 == 5000           \* clock value when the behaviour starts
HashOverflow == 3    \* distinct tokens submitted beyond MAX_HASH_SIZE
MaxOptionInput == 2  \* configured integers range over -MaxOptionInput..MaxOptionInput
MaxCalls == 3        \* requests a monitored tag makes during one event
MaxRecordsV1 == 3    \* raw tracks created over a behaviour of version 1
MaxRecordsTags == 3  \* raw tracks created over a behaviour that follows the tags

\* ------------------------------------------------------- program constants
MAX_HASH_SIZE == 100
DEFAULT_BATCH_SIZE == 1
DEFAULT_BATCH_AGE_SECONDS == 5
DEFAULT_SAMPLING_RATE == 1
MS_PER_SECOND == 1000
SESSION_TIMEOUT_MINS == 30
DEFAULT_BATCH_SIZE_V1 == 20

Inv == 1..NumInv

VARIABLES
    data,      \* the tag configuration handed to every invocation
    store,     \* templateDataStorage: rawTrackQueue, queueStartTime, seenHashes
    now,       \* getTimestampMillis()
    inv,       \* per invocation: program position and local variables
    nextId,    \* identity of the next raw track to be created
    posts,     \* every sendHttpRequest issued, with its outcome
    appended,  \* history: the raw tracks pushed by addToQueue, in order
    monitored  \* a tag that includes the monitoring snippet, during one event

vars == <<data, store, now, inv, nextId, posts, appended, monitored>>

\* --------------------------------------------------------------- getOptions
\* makeInteger(x) || d : 0 (also the value of an absent field) is falsy.
OrDefault(x, d) == IF x = 0 THEN d ELSE x

getOptions(d) ==
    [ MAX_BATCH_SIZE   |-> OrDefault(d.maxBatchSize, DEFAULT_BATCH_SIZE),
      MAX_BATCH_AGE_MS |-> OrDefault(d.maxBatchAgeSeconds, DEFAULT_BATCH_AGE_SECONDS) * MS_PER_SECOND,
      SAMPLING_RATE    |-> OrDefault(d.samplingRate, DEFAULT_SAMPLING_RATE),
      USE_SESSIONS     |-> d.useSessions,
      CAPTURE_GTM      |-> d.captureGTM ]

OPTIONS == getOptions(data)

\* ------------------------------------------------------------ array helpers
\* Array.prototype.slice(n) for n >= 0
SliceFrom(s, n) == SubSeq(s, n + 1, Len(s))

\* Array.prototype.slice(n) for any integer n (negative counts from the end)
Slice(s, n) ==
    IF n >= 0 THEN SliceFrom(s, n)
    ELSE IF -n >= Len(s) THEN s ELSE SliceFrom(s, Len(s) + n)

\* Math.min taken for Math.max
MaxAsMin(a, b) == IF a <= b THEN a ELSE b

Max(a, b) == IF a >= b THEN a ELSE b

Contains(s, x) == \E k \in 1..Len(s) : s[k] = x

\* ------------------------------------------------------------ raw tracks
\* JavaScript values: undefined, null, and strings ("" is the empty string)
Undefined == "<undefined>"
Null == "<null>"

Falsy(v) == v \in {Undefined, Null, ""}

\* a || b
Or(a, b) == IF Falsy(a) THEN b ELSE a

NoTrack == [id |-> 0, provider |-> "none", endpoint |-> Undefined,
            method |-> Undefined, post_payload |-> Undefined]

\* the request processGTMEvent builds from the incoming request: path and
\* query string, getRequestBody(), and the 'method' header || "GET"
GtmRequest == [url |-> "/g/collect?v=2", body |-> Undefined, method |-> Or(Undefined, "GET")]

\* every record is labelled as a GTM event
createRawTrackAsEvent(provider, request) ==
    [ id |-> nextId, provider |-> "ssgtm_event", endpoint |-> request.url,
      method |-> Or(request.method, "POST"), post_payload |-> Or(request.body, Null) ]

\* createRawTrack(provider, request): a fresh record; of its content the model
\* carries the provider and the request part, and an identity standing for
\* the rest (href, tags, ts, context)
createRawTrack(provider, request) ==
    [ id |-> nextId, provider |-> provider, endpoint |-> request.url,
      method |-> Or(request.method, "POST"), post_payload |-> Or(request.body, Null) ]

\* ------------------------------------------------------ checkAndAddHash
\* the trim keeps the oldest MAX_HASH_SIZE entries
PushHashKeepsOldest(seen, hash) ==
    LET pushed == Append(seen, hash)
    IN  IF Len(pushed) > MAX_HASH_SIZE THEN SubSeq(pushed, 1, MAX_HASH_SIZE) ELSE pushed

\* the array checkAndAddHash stores for a hash that is not in seenHashes
PushHash(seen, hash) ==
    LET pushed == Append(seen, hash)
        toRemove == Max(Len(pushed) - MAX_HASH_SIZE, -(MAX_HASH_SIZE \div 2))
    IN  IF Len(pushed) > MAX_HASH_SIZE THEN Slice(pushed, toRemove) ELSE pushed

\* ------------------------------------------------------- flush decisions
\* a batch is due only once it exceeds the configured size
sendDueToSizeStrict(q) == Len(q) > OPTIONS.MAX_BATCH_SIZE

\* addToQueue, lines 425-436
sendDueToSize(q) == Len(q) >= OPTIONS.MAX_BATCH_SIZE

sendDueToTime(q, startTime, currentTime) ==
    (currentTime - startTime) >= OPTIONS.MAX_BATCH_AGE_MS /\ Len(q) > 0

\* a batch is sent only when it is due by size and by age at once
ShouldSendBoth(q, startTime, currentTime) ==
    sendDueToSize(q) /\ sendDueToTime(q, startTime, currentTime) /\ Len(q) > 0

\* a batch is sent as soon as the queue is not empty
ShouldSendAlways(q, startTime, currentTime) == Len(q) > 0

ShouldSend(q, startTime, currentTime) ==
    (sendDueToSize(q) \/ sendDueToTime(q, startTime, currentTime)) /\ Len(q) > 0

\* checkStaleQueue, lines 571 and 586
NoStaleQueue(q, startTime) == Len(q) = 0 \/ startTime = 0

\* the queue is stale only once it is older than the limit
IsStaleStrict(startTime, currentTime) ==
    (currentTime - startTime) > OPTIONS.MAX_BATCH_AGE_MS

IsStale(startTime, currentTime) ==
    (currentTime - startTime) >= OPTIONS.MAX_BATCH_AGE_MS

\* the partial clear is also taken when nothing was added
KeepTailOrEqual(current, sentQueueLength) == Len(current) >= sentQueueLength

\* sendBatch, line 523: were records added since the snapshot was taken
KeepTail(current, sentQueueLength) == Len(current) > sentQueueLength

\* the partial clear drops the newest records instead of the oldest
updatedQueueDropsNewest(current, sentQueueLength) ==
    SubSeq(current, 1, Len(current) - sentQueueLength)

\* sendBatch, line 526
updatedQueue(current, sentQueueLength) == SliceFrom(current, sentQueueLength)

\* --------------------------------------------------- invocation positions
\* where control continues when addToQueue / sendBatch return to initialize
\* ("gtm": called from processGTMEvent, "stale": from checkStaleQueue) or
\* to the host ("msg": called from the message listener)
\* processGTMEvent's return skips checkStaleQueue
ReturnToSkipsStale(caller) ==
    CASE caller = "gtm" -> "success"
      [] caller = "stale" -> "success"
      [] OTHER -> "ready"

\* checkStaleQueue's return skips data.gtmOnSuccess()
ReturnToSkipsSuccess(caller) ==
    CASE caller = "gtm" -> "st_getq"
      [] caller = "stale" -> "ready"
      [] OTHER -> "ready"

ReturnTo(caller) ==
    CASE caller = "gtm" -> "st_getq"
      [] caller = "stale" -> "success"
      [] OTHER -> "ready"

Locals0 ==
    [ pc |-> "idle", caller |-> "none", token |-> 0, rawTrack |-> NoTrack,
      queue |-> <<>>, queueStartTime |-> 0, seenHashes |-> <<>>,
      queueToSend |-> <<>>, currentQueue |-> <<>>,
      reqCookie |-> -1, setCookie |-> [value |-> 0, max_age |-> 0], session_id |-> 0,
      gtmOnSuccess |-> 0, staleChecks |-> 0, duplicate |-> FALSE ]

\* locals of addToQueue and sendBatch are dead once the call has returned
Returned(l) ==
    [ l EXCEPT !.pc = ReturnTo(l.caller), !.caller = "none", !.rawTrack = NoTrack,
               !.queue = <<>>, !.queueStartTime = 0,
               !.queueToSend = <<>>, !.currentQueue = <<>>, !.session_id = 0 ]

Quiescent(i) == inv[i].pc \in {"idle", "ready"}

Config ==
    [ maxBatchSize : {0} \cup 2..MaxBatchInput,
      maxBatchAgeSeconds : {AgeSeconds},
      samplingRate : {0} \cup 2..MaxSamplingInput,
      useSessions : BOOLEAN,
      captureGTM : BOOLEAN ]

\* the monitored tag has made no request yet
Monitored0 ==
    [ calls |-> <<>>, callbacks |-> <<>>, relayed |-> <<>>, returned |-> Undefined,
      ended |-> FALSE, direct |-> FALSE ]

Init ==
    /\ data \in Config
    /\ store = [rawTrackQueue |-> <<>>, queueStartTime |-> 0, seenHashes |-> <<>>]
    /\ now = T0
    /\ inv = [i \in Inv |-> Locals0]
    /\ nextId = 1
    /\ posts = <<>>
    /\ appended = <<>>
    /\ monitored = Monitored0

\* ------------------------------------------------------------- sessions
\* a request cookie value is 1; generateUUID mints 2, 3, ...
Uuids == 2..(MaxUuid + 1)

\* a new id is minted even when the request carries a session cookie
updateAndGetSessionIdAlwaysMints(existing, minted) ==
    [ setCookie |-> [value |-> minted, max_age |-> SESSION_TIMEOUT_MINS * 60],
      session_id |-> minted ]

\* updateAndGetSessionId: the cookie set and the id returned for a request
\* cookie `existing` (0: absent) when generateUUID yields `minted`
updateAndGetSessionId(existing, minted) ==
    IF existing # 0
    THEN [ setCookie |-> [value |-> existing, max_age |-> SESSION_TIMEOUT_MINS * 60],
           session_id |-> existing ]
    ELSE [ setCookie |-> [value |-> minted, max_age |-> SESSION_TIMEOUT_MINS * 60],
           session_id |-> minted ]

\* sendBatch up to the payload (lines 458-515) for a call with snapshot `snap`
\* made from `caller`, in a request whose _TP_SID cookie is `cookie`: the empty
\* snapshot returns at once, otherwise the session cookie is refreshed and the
\* payload is held for the send.
BeginSend(l, caller, snap, cookie, minted) ==
    IF Len(snap) = 0 THEN Returned([l EXCEPT !.caller = caller])
    ELSE LET s == IF OPTIONS.USE_SESSIONS
                  THEN updateAndGetSessionId(cookie, minted)
                  ELSE [setCookie |-> l.setCookie, session_id |-> 0]
         IN  [ l EXCEPT !.pc = "sb_getq", !.caller = caller, !.queueToSend = snap,
                        !.queue = <<>>, !.queueStartTime = 0,
                        !.reqCookie = cookie, !.session_id = s.session_id,
                        !.setCookie = s.setCookie ]

Minted == IF OPTIONS.USE_SESSIONS THEN Uuids ELSE {0}

\* the _TP_SID cookie of the request an invocation serves: 0 absent, 1 present.
\* It is an input fixed for the whole run; the model draws it when
\* getCookieValues first reads it (-1 until then).
Cookies(l) ==
    IF ~OPTIONS.USE_SESSIONS THEN {l.reqCookie}
    ELSE IF l.reqCookie = -1 THEN {0, 1} ELSE {l.reqCookie}

Set(i, l) == inv' = [inv EXCEPT ![i] = l]

\* ---------------------------------------------------------------- actions
\* a new run of the tag: initialize() up to the first store access.  Runs are
\* interchangeable, so a new one takes the lowest free slot.
Start(i) ==
    /\ inv[i].pc = "idle"
    /\ \A j \in Inv : j < i => inv[j].pc # "idle"
    /\ \E tok \in 0..MaxToken :
         LET l == [Locals0 EXCEPT !.token = tok] IN
         IF ~OPTIONS.CAPTURE_GTM
         THEN Set(i, [l EXCEPT !.pc = "st_getq"]) /\ UNCHANGED nextId
         ELSE /\ nextId + Cardinality({j \in Inv : inv[j].pc \in {"gtm_hash", "gtm_hash_set"}})
                    <= MaxRecords
              /\ IF tok # 0
                 THEN Set(i, [l EXCEPT !.pc = "gtm_hash"]) /\ UNCHANGED nextId
                 ELSE /\ Set(i, [l EXCEPT !.pc = "aq_sample", !.caller = "gtm",
                                          !.rawTrack = createRawTrack("ssgtm_event", GtmRequest)])
                      /\ nextId' = nextId + 1
    /\ UNCHANGED <<monitored, data, store, now, posts, appended>>

\* the duplicate is detected but processed all the same
CheckHashIgnored(i) ==
    /\ inv[i].pc = "gtm_hash"
    /\ LET seen == store.seenHashes
           exists == Contains(seen, inv[i].token)
       IN  Set(i, [inv[i] EXCEPT !.pc = "gtm_hash_set", !.token = 0,
                                 !.duplicate = exists,
                                 !.seenHashes = IF exists THEN seen
                                                ELSE PushHash(seen, inv[i].token)])
    /\ UNCHANGED <<monitored, data, store, now, nextId, posts, appended>>

\* checkAndAddHash: getItemCopy(seenHashes) and the lookup
CheckHash(i) ==
    /\ inv[i].pc = "gtm_hash"
    /\ LET seen == store.seenHashes
           exists == Contains(seen, inv[i].token)
       IN  IF exists
           THEN Set(i, [inv[i] EXCEPT !.pc = "st_getq", !.token = 0, !.duplicate = TRUE])
           ELSE Set(i, [inv[i] EXCEPT !.pc = "gtm_hash_set", !.token = 0,
                                      !.seenHashes = PushHash(seen, inv[i].token)])
    /\ UNCHANGED <<monitored, data, store, now, nextId, posts, appended>>

\* the updated seen-set is not saved
SetHashNotSaved(i) ==
    /\ inv[i].pc = "gtm_hash_set"
    /\ Set(i, [inv[i] EXCEPT !.pc = "aq_sample", !.caller = "gtm", !.seenHashes = <<>>,
                             !.rawTrack = createRawTrack("ssgtm_event", GtmRequest)])
    /\ nextId' = nextId + 1
    /\ UNCHANGED <<monitored, data, store, now, posts, appended>>

\* checkAndAddHash: setItemCopy(seenHashes); processGTMEvent then builds the track
SetHash(i) ==
    /\ inv[i].pc = "gtm_hash_set"
    /\ store' = [store EXCEPT !.seenHashes = inv[i].seenHashes]
    /\ Set(i, [inv[i] EXCEPT !.pc = "aq_sample", !.caller = "gtm", !.seenHashes = <<>>,
                             !.rawTrack = createRawTrack("ssgtm_event", GtmRequest)])
    /\ nextId' = nextId + 1
    /\ UNCHANGED <<monitored, data, now, posts, appended>>

\* every draw skips the track
SampleDrawSkipsAll(i, randomValue) ==
    /\ inv[i].pc = "aq_sample"
    /\ IF randomValue >= 1
       THEN Set(i, Returned(inv[i]))
       ELSE Set(i, [inv[i] EXCEPT !.pc = "aq_getq"])
    /\ UNCHANGED <<monitored, data, store, now, nextId, posts, appended>>

\* addToQueue: what follows the draw generateRandom(1, SAMPLING_RATE) = randomValue
SampleDraw(i, randomValue) ==
    /\ inv[i].pc = "aq_sample"
    /\ IF randomValue > 1
       THEN Set(i, Returned(inv[i]))
       ELSE Set(i, [inv[i] EXCEPT !.pc = "aq_getq"])
    /\ UNCHANGED <<monitored, data, store, now, nextId, posts, appended>>

\* addToQueue: sampling
Sample(i) ==
    /\ inv[i].pc = "aq_sample"
    /\ IF OPTIONS.SAMPLING_RATE > 1
       THEN \E randomValue \in 1..OPTIONS.SAMPLING_RATE : SampleDraw(i, randomValue)
       ELSE /\ Set(i, [inv[i] EXCEPT !.pc = "aq_getq"])
            /\ UNCHANGED <<monitored, data, store, now, nextId, posts, appended>>

\* the queue is taken from what the invocation holds, not read from the store
GetQueueNotRead(i) ==
    /\ inv[i].pc = "aq_getq"
    /\ Set(i, [inv[i] EXCEPT !.pc = "aq_getst"])
    /\ UNCHANGED <<monitored, data, store, now, nextId, posts, appended>>

\* addToQueue: getItemCopy('rawTrackQueue')
GetQueue(i) ==
    /\ inv[i].pc = "aq_getq"
    /\ Set(i, [inv[i] EXCEPT !.pc = "aq_getst", !.queue = store.rawTrackQueue])
    /\ UNCHANGED <<monitored, data, store, now, nextId, posts, appended>>

\* the start time is set on every append
GetStartTimeAlwaysSets(i) ==
    /\ inv[i].pc = "aq_getst"
    /\ Set(i, [inv[i] EXCEPT !.queueStartTime = store.queueStartTime, !.pc = "aq_setst"])
    /\ UNCHANGED <<monitored, data, store, now, nextId, posts, appended>>

\* addToQueue: getItemCopy('queueStartTime')
GetStartTime(i) ==
    /\ inv[i].pc = "aq_getst"
    /\ Set(i, [inv[i] EXCEPT !.queueStartTime = store.queueStartTime,
                             !.pc = IF Len(inv[i].queue) = 0 THEN "aq_setst" ELSE "aq_setq"])
    /\ UNCHANGED <<monitored, data, store, now, nextId, posts, appended>>

\* addToQueue: the queue was empty, setItemCopy('queueStartTime', now)
SetStartTime(i) ==
    /\ inv[i].pc = "aq_setst"
    /\ store' = [store EXCEPT !.queueStartTime = now]
    /\ Set(i, [inv[i] EXCEPT !.pc = "aq_setq", !.queueStartTime = now])
    /\ UNCHANGED <<monitored, data, now, nextId, posts, appended>>

\* the record is put at the head of the queue
SetQueueAtHead(i) ==
    /\ inv[i].pc = "aq_setq"
    /\ LET pushed == <<inv[i].rawTrack>> \o inv[i].queue
       IN  /\ store' = [store EXCEPT !.rawTrackQueue = pushed]
           /\ Set(i, [inv[i] EXCEPT !.pc = "aq_check", !.queue = pushed])
    /\ appended' = Append(appended, inv[i].rawTrack)
    /\ UNCHANGED <<monitored, data, now, nextId, posts>>

\* addToQueue: push and setItemCopy('rawTrackQueue', queue)
SetQueue(i) ==
    /\ inv[i].pc = "aq_setq"
    /\ LET pushed == Append(inv[i].queue, inv[i].rawTrack)
       IN  /\ store' = [store EXCEPT !.rawTrackQueue = pushed]
           /\ Set(i, [inv[i] EXCEPT !.pc = "aq_check", !.queue = pushed])
    /\ appended' = Append(appended, inv[i].rawTrack)
    /\ UNCHANGED <<monitored, data, now, nextId, posts>>

\* addToQueue: the flush decision, and sendBatch's prologue when it is due
CheckSend(i) ==
    /\ inv[i].pc = "aq_check"
    /\ IF ShouldSend(inv[i].queue, inv[i].queueStartTime, now)
       THEN \E cookie \in Cookies(inv[i]), minted \in Minted :
              Set(i, BeginSend(inv[i], inv[i].caller, inv[i].queue, cookie, minted))
       ELSE Set(i, Returned(inv[i]))
    /\ UNCHANGED <<monitored, data, store, now, nextId, posts, appended>>

\* the queue re-read from the store replaces the snapshot
GetCurrentQueueResnapshots(i) ==
    /\ inv[i].pc = "sb_getq"
    /\ Set(i, [inv[i] EXCEPT !.pc = "sb_setq", !.currentQueue = store.rawTrackQueue,
                             !.queueToSend = store.rawTrackQueue])
    /\ UNCHANGED <<monitored, data, store, now, nextId, posts, appended>>

\* sendBatch: getItemCopy('rawTrackQueue') before clearing
GetCurrentQueue(i) ==
    /\ inv[i].pc = "sb_getq"
    /\ Set(i, [inv[i] EXCEPT !.pc = "sb_setq", !.currentQueue = store.rawTrackQueue])
    /\ UNCHANGED <<monitored, data, store, now, nextId, posts, appended>>

\* the queue is not cleared before the send
ClearQueueSkipped(i) ==
    /\ inv[i].pc = "sb_setq"
    /\ Set(i, [inv[i] EXCEPT !.pc = "sb_send"])
    /\ UNCHANGED <<monitored, data, store, now, nextId, posts, appended>>

\* sendBatch: setItemCopy('rawTrackQueue', ...), partial or full clear
ClearQueue(i) ==
    /\ inv[i].pc = "sb_setq"
    /\ LET sentQueueLength == Len(inv[i].queueToSend) IN
       IF KeepTail(inv[i].currentQueue, sentQueueLength)
       THEN /\ store' = [store EXCEPT !.rawTrackQueue =
                                        updatedQueue(inv[i].currentQueue, sentQueueLength)]
            /\ Set(i, [inv[i] EXCEPT !.pc = "sb_send"])
       ELSE /\ store' = [store EXCEPT !.rawTrackQueue = <<>>]
            /\ Set(i, [inv[i] EXCEPT !.pc = "sb_setst"])
    /\ UNCHANGED <<monitored, data, now, nextId, posts, appended>>

\* the full clear leaves queueStartTime as it is
ResetStartTimeSkipped(i) ==
    /\ inv[i].pc = "sb_setst"
    /\ Set(i, [inv[i] EXCEPT !.pc = "sb_send"])
    /\ UNCHANGED <<monitored, data, store, now, nextId, posts, appended>>

\* sendBatch: full clear, setItemCopy('queueStartTime', 0)
ResetStartTime(i) ==
    /\ inv[i].pc = "sb_setst"
    /\ store' = [store EXCEPT !.queueStartTime = 0]
    /\ Set(i, [inv[i] EXCEPT !.pc = "sb_send"])
    /\ UNCHANGED <<monitored, data, now, nextId, posts, appended>>

\* the POST carries the queue as re-read from the store, not the snapshot
SendHttpRequestCurrentQueue(i) ==
    /\ inv[i].pc = "sb_send"
    /\ posts' = Append(posts, [requests |-> inv[i].currentQueue, outcome |-> "pending"])
    /\ Set(i, Returned(inv[i]))
    /\ UNCHANGED <<monitored, data, store, now, nextId, appended>>

\* sendBatch: sendHttpRequest(WEBHOOK_URL, POST, payload), fire and forget
SendHttpRequest(i) ==
    /\ inv[i].pc = "sb_send"
    /\ posts' = Append(posts, [requests |-> inv[i].queueToSend, outcome |-> "pending"])
    /\ Set(i, Returned(inv[i]))
    /\ UNCHANGED <<monitored, data, store, now, nextId, appended>>

\* setupMessageListener, then checkStaleQueue: getItemCopy('rawTrackQueue')
GetStaleQueue(i) ==
    /\ inv[i].pc = "st_getq"
    /\ Set(i, [inv[i] EXCEPT !.pc = "st_getst", !.queue = store.rawTrackQueue,
                             !.staleChecks = @ + 1])
    /\ UNCHANGED <<monitored, data, store, now, nextId, posts, appended>>

\* checkStaleQueue: getItemCopy('queueStartTime') and the early return
GetStaleStartTime(i) ==
    /\ inv[i].pc = "st_getst"
    /\ IF NoStaleQueue(inv[i].queue, store.queueStartTime)
       THEN Set(i, Returned([inv[i] EXCEPT !.caller = "stale"]))
       ELSE Set(i, [inv[i] EXCEPT !.pc = "st_check",
                                  !.queueStartTime = store.queueStartTime])
    /\ UNCHANGED <<monitored, data, store, now, nextId, posts, appended>>

\* checkStaleQueue: the age test, and sendBatch's prologue when the queue is stale
CheckStale(i) ==
    /\ inv[i].pc = "st_check"
    /\ IF IsStale(inv[i].queueStartTime, now)
       THEN \E cookie \in Cookies(inv[i]), minted \in Minted :
              Set(i, BeginSend(inv[i], "stale", inv[i].queue, cookie, minted))
       ELSE Set(i, Returned([inv[i] EXCEPT !.caller = "stale"]))
    /\ UNCHANGED <<monitored, data, store, now, nextId, posts, appended>>

\* initialize: data.gtmOnSuccess()
GtmOnSuccess(i) ==
    /\ inv[i].pc = "success"
    /\ Set(i, [inv[i] EXCEPT !.pc = "ready", !.gtmOnSuccess = @ + 1, !.duplicate = FALSE])
    /\ UNCHANGED <<monitored, data, store, now, nextId, posts, appended>>

\* the messages a tp_request can carry: none at all, or an object whose url
\* and body each are missing, empty or set
Urls == {"https://example.com/collect"}
Bodies == {"{x:1}"}
NoMessage == [present |-> FALSE, url |-> Undefined, body |-> Undefined]
Messages ==
    {NoMessage} \cup [present : {TRUE}, url : {Undefined, ""} \cup Urls,
                      body : {Undefined, ""} \cup Bodies]

\* !message || !message.url
InvalidMessage(message) == ~message.present \/ Falsy(message.url)

\* an invalid message is processed like any other
ListenerAcceptsAll(i, message) ==
    /\ inv[i].pc = "ready"
    /\ nextId <= MaxRecords
    /\ LET request == [url |-> message.url, body |-> Or(message.body, Null),
                       method |-> "POST"]
       IN  Set(i, [inv[i] EXCEPT !.pc = "aq_sample", !.caller = "msg",
                                 !.rawTrack = createRawTrack("ssgtm_message", request)])
    /\ nextId' = nextId + 1
    /\ UNCHANGED <<monitored, data, store, now, posts, appended>>

\* the tp_request listener called with `message`: an invalid message is
\* reported, a valid one becomes a raw track handed to addToQueue
Listener(i, message) ==
    /\ inv[i].pc = "ready"
    /\ IF InvalidMessage(message)
       THEN Set(i, [inv[i] EXCEPT !.pc = "msg_invalid"]) /\ UNCHANGED nextId
       ELSE /\ nextId <= MaxRecords
            /\ LET request == [url |-> message.url, body |-> Or(message.body, Null),
                               method |-> "POST"]
               IN  Set(i, [inv[i] EXCEPT !.pc = "aq_sample", !.caller = "msg",
                                         !.rawTrack = createRawTrack("ssgtm_message", request)])
            /\ nextId' = nextId + 1
    /\ UNCHANGED <<monitored, data, store, now, posts, appended>>

\* a relayed message arrives
Message(i) == \E message \in Messages : Listener(i, message)

\* the interleaved specification relays two of the messages only, an absent
\* one and a complete one: what a record carries plays no part in how the
\* store accesses of overlapping invocations interleave
PlainMessages == {m \in Messages : ~m.present \/ (m.url \in Urls /\ m.body \in Bodies)}

PlainMessage(i) == \E message \in PlainMessages : Listener(i, message)

\* the listener's early return: log(true, "ERROR: Invalid message received")
DropMessage(i) ==
    /\ inv[i].pc = "msg_invalid"
    /\ Set(i, [inv[i] EXCEPT !.pc = "ready"])
    /\ UNCHANGED <<monitored, data, store, now, nextId, posts, appended>>

\* the host has finished with this run; its listener is gone
Finish(i) ==
    /\ inv[i].pc = "ready"
    /\ Set(i, Locals0)
    /\ UNCHANGED <<monitored, data, store, now, nextId, posts, appended>>

\* the clock advances
Tick ==
    /\ now < T0 + MaxTicks * TickMs
    /\ now' = now + TickMs
    /\ UNCHANGED <<monitored, data, store, inv, nextId, posts, appended>>

\* the response handlers of sendBatch (.then / .catch): they only log
Respond ==
    /\ \E k \in 1..Len(posts), outcome \in {"ok", "http_error", "error"} :
         /\ posts[k].outcome = "pending"
         /\ posts' = [posts EXCEPT ![k].outcome = outcome]
    /\ UNCHANGED <<monitored, data, store, now, inv, nextId, appended>>

Step(i) ==
    \/ Start(i) \/ CheckHash(i) \/ SetHash(i) \/ Sample(i)
    \/ GetQueue(i) \/ GetStartTime(i) \/ SetStartTime(i) \/ SetQueue(i) \/ CheckSend(i)
    \/ GetCurrentQueue(i) \/ ClearQueue(i) \/ ResetStartTime(i) \/ SendHttpRequest(i)
    \/ GetStaleQueue(i) \/ GetStaleStartTime(i) \/ CheckStale(i)
    \/ GtmOnSuccess(i) \/ PlainMessage(i) \/ DropMessage(i) \/ Finish(i)

\* invocations interleave at every store access
Next == (\E i \in Inv : Step(i)) \/ Tick

Spec == Init /\ [][Next]_vars

\* operations do not overlap: an invocation moves only while all others are
\* idle or waiting for a message; the responses to the POSTs arrive in between
Alone(i) == \A j \in Inv \ {i} : Quiescent(j)

NextSeq ==
    \/ \E i \in Inv : Alone(i) /\ Start(i)
    \/ \E i \in Inv : Alone(i) /\ CheckHash(i)
    \/ \E i \in Inv : Alone(i) /\ SetHash(i)
    \/ \E i \in Inv : Alone(i) /\ Sample(i)
    \/ \E i \in Inv : Alone(i) /\ GetQueue(i)
    \/ \E i \in Inv : Alone(i) /\ GetStartTime(i)
    \/ \E i \in Inv : Alone(i) /\ SetStartTime(i)
    \/ \E i \in Inv : Alone(i) /\ SetQueue(i)
    \/ \E i \in Inv : Alone(i) /\ CheckSend(i)
    \/ \E i \in Inv : Alone(i) /\ GetCurrentQueue(i)
    \/ \E i \in Inv : Alone(i) /\ ClearQueue(i)
    \/ \E i \in Inv : Alone(i) /\ ResetStartTime(i)
    \/ \E i \in Inv : Alone(i) /\ SendHttpRequest(i)
    \/ \E i \in Inv : Alone(i) /\ GetStaleQueue(i)
    \/ \E i \in Inv : Alone(i) /\ GetStaleStartTime(i)
    \/ \E i \in Inv : Alone(i) /\ CheckStale(i)
    \/ \E i \in Inv : Alone(i) /\ GtmOnSuccess(i)
    \/ \E i \in Inv : Alone(i) /\ Message(i)
    \/ \E i \in Inv : Alone(i) /\ DropMessage(i)
    \/ \E i \in Inv : Alone(i) /\ Finish(i)
    \/ Tick
    \/ Respond

SpecSeq == Init /\ [][NextSeq]_vars

\* a run of the tag is not suspended: once an operation has begun, the
\* invocation goes on until initialize or the listener has returned.  New
\* runs, relayed messages, clock ticks and responses come as they may.
RunOn(i) ==
    \/ CheckHash(i) \/ SetHash(i) \/ Sample(i)
    \/ GetQueue(i) \/ GetStartTime(i) \/ SetStartTime(i) \/ SetQueue(i) \/ CheckSend(i)
    \/ GetCurrentQueue(i) \/ ClearQueue(i) \/ ResetStartTime(i) \/ SendHttpRequest(i)
    \/ GetStaleQueue(i) \/ GetStaleStartTime(i) \/ CheckStale(i)
    \/ GtmOnSuccess(i) \/ DropMessage(i)

SpecSeqLive == SpecSeq /\ \A i \in Inv : WF_vars(Alone(i) /\ RunOn(i))

\* ------------------------------------------------- the seen-set on its own
\* a whole call checkAndAddHash(hash), not interleaved with any other; the
\* caller's locals keep the argument (token) and the result (duplicate)
checkAndAddHash(hash) ==
    LET exists == hash # 0 /\ Contains(store.seenHashes, hash) IN
    /\ IF hash = 0 \/ exists
       THEN UNCHANGED store
       ELSE store' = [store EXCEPT !.seenHashes = PushHash(@, hash)]
    /\ inv' = [inv EXCEPT ![1].token = hash, ![1].duplicate = exists]
    /\ UNCHANGED <<monitored, data, now, nextId, posts, appended>>

\* the largest token in the seen-set, 0 when it is empty
Newest(seen) ==
    LET S == {seen[k] : k \in 1..Len(seen)}
    IN  IF S = {} THEN 0 ELSE CHOOSE m \in S : \A x \in S : x <= m

\* the tokens submitted next: none (0), the first token ever, the oldest token
\* still in the set, and a token never seen before
HashInputs(seen) ==
    {0, 1} \cup (IF seen = <<>> THEN {} ELSE {seen[1]})
           \cup {h \in {Newest(seen) + 1} : h <= MAX_HASH_SIZE + HashOverflow}

InitHash == Init /\ data.captureGTM

NextHash == \E hash \in HashInputs(store.seenHashes) : checkAndAddHash(hash)

SpecHash == InitHash /\ [][NextHash]_vars

\* ------------------------------------------- the seen-set and its history
\* a whole call checkAndAddHash(hash) as above; here `appended` is the history
\* of the tokens the calls have pushed onto the seen-set, in order
checkAndAddHashLogged(hash) ==
    LET exists == hash # 0 /\ Contains(store.seenHashes, hash) IN
    /\ IF hash = 0 \/ exists
       THEN UNCHANGED <<store, appended>>
       ELSE /\ store' = [store EXCEPT !.seenHashes = PushHash(@, hash)]
            /\ appended' = Append(appended, hash)
    /\ inv' = [inv EXCEPT ![1].token = hash, ![1].duplicate = exists]
    /\ UNCHANGED <<monitored, data, now, nextId, posts>>

NextWindow == \E hash \in HashInputs(store.seenHashes) : checkAndAddHashLogged(hash)

SpecWindow == InitHash /\ [][NextWindow]_vars

\* ------------------------------------------------- the options on their own
\* what the configuration fields can evaluate to at run time: any integer,
\* 0 standing for an absent field as well
OptionInputs ==
    [ maxBatchSize : -MaxOptionInput..MaxOptionInput,
      maxBatchAgeSeconds : -MaxOptionInput..MaxOptionInput,
      samplingRate : -MaxOptionInput..MaxOptionInput,
      useSessions : BOOLEAN,
      captureGTM : BOOLEAN ]

InitOptions ==
    /\ data \in OptionInputs
    /\ store = [rawTrackQueue |-> <<>>, queueStartTime |-> 0, seenHashes |-> <<>>]
    /\ now = T0
    /\ inv = [i \in Inv |-> Locals0]
    /\ nextId = 1
    /\ posts = <<>>
    /\ appended = <<>>
    /\ monitored = Monitored0

\* a run of the tag evaluates const OPTIONS = getOptions()
LoadOptions(i) ==
    /\ inv[i].pc = "idle"
    /\ \A j \in Inv : j < i => inv[j].pc # "idle"
    /\ inv' = [inv EXCEPT ![i] = [pc |-> "loaded", OPTIONS |-> getOptions(data)]]
    /\ UNCHANGED <<monitored, data, store, now, nextId, posts, appended>>

\* the run is over
UnloadOptions(i) ==
    /\ inv[i].pc = "loaded"
    /\ inv' = [inv EXCEPT ![i] = Locals0]
    /\ UNCHANGED <<monitored, data, store, now, nextId, posts, appended>>

NextOptions ==
    \/ \E i \in Inv : LoadOptions(i)
    \/ \E i \in Inv : UnloadOptions(i)

SpecOptions == InitOptions /\ [][NextOptions]_vars

\* --------------------------------------------------- the monitoring snippet
\* src/trackingplan_snippet.js, included on top of a tag to be monitored.  The
\* tag calls the wrapped functions while the event is processed; the host
\* invokes the callbacks registered with addEventCallback when the event ends.
\* The snippet printed in the README of src/template.tpl calls sendMessage in
\* the wrapper itself (monitored.direct).
SnippetUrls == {"https://a.example/x", "https://b.example/y"}
SnippetOptions == {"{method:POST}"}
SnippetBodies == {Undefined, "{y:2}"}
Results == {"promise1", "promise2"}

\* { url: url, body: body }
RequestMessage(url, body) == [url |-> url, body |-> body]

\* { url: url }
GetMessage(url) == [url |-> url]

\* the wrapped sendHttpRequest(url, options, body); the original returns `result`
sendHttpRequest(url, options, body, result) ==
    /\ ~monitored.ended
    /\ Len(monitored.calls) < MaxCalls
    /\ monitored' =
          [ monitored EXCEPT
              !.callbacks = IF monitored.direct THEN @
                            ELSE Append(@, RequestMessage(url, body)),
              !.relayed = IF monitored.direct
                          THEN Append(@, RequestMessage(url, body)) ELSE @,
              !.calls = Append(@, [fn |-> "sendHttpRequest", url |-> url,
                                   options |-> options, body |-> body,
                                   result |-> result]),
              !.returned = result ]
    /\ UNCHANGED <<data, store, now, inv, nextId, posts, appended>>

\* the wrapped sendHttpGet(url, options)
sendHttpGet(url, options, result) ==
    /\ ~monitored.ended
    /\ Len(monitored.calls) < MaxCalls
    /\ monitored' =
          [ monitored EXCEPT
              !.callbacks = IF monitored.direct THEN @ ELSE Append(@, GetMessage(url)),
              !.relayed = IF monitored.direct THEN Append(@, GetMessage(url)) ELSE @,
              !.calls = Append(@, [fn |-> "sendHttpGet", url |-> url,
                                   options |-> options, result |-> result]),
              !.returned = result ]
    /\ UNCHANGED <<data, store, now, inv, nextId, posts, appended>>

\* all tags have run for the event
EndEvent ==
    /\ ~monitored.ended
    /\ monitored' = [monitored EXCEPT !.ended = TRUE]
    /\ UNCHANGED <<data, store, now, inv, nextId, posts, appended>>

\* a callback is dropped without being run
EventCallbackSkipped ==
    /\ monitored.ended
    /\ monitored.callbacks # <<>>
    /\ monitored' = [monitored EXCEPT !.callbacks = Tail(@)]
    /\ UNCHANGED <<data, store, now, inv, nextId, posts, appended>>

\* the host runs the next registered callback: sendMessage('tp_request', ...)
EventCallback ==
    /\ monitored.ended
    /\ monitored.callbacks # <<>>
    /\ monitored' = [monitored EXCEPT !.callbacks = Tail(@),
                                      !.relayed = Append(@, Head(monitored.callbacks))]
    /\ UNCHANGED <<data, store, now, inv, nextId, posts, appended>>

\* the tag includes one of the two printed snippets
InitSnippet ==
    /\ data = [maxBatchSize |-> 0, maxBatchAgeSeconds |-> AgeSeconds, samplingRate |-> 0,
               useSessions |-> FALSE, captureGTM |-> FALSE]
    /\ store = [rawTrackQueue |-> <<>>, queueStartTime |-> 0, seenHashes |-> <<>>]
    /\ now = T0
    /\ inv = [i \in Inv |-> Locals0]
    /\ nextId = 1
    /\ posts = <<>>
    /\ appended = <<>>
    /\ monitored \in {[Monitored0 EXCEPT !.direct = b] : b \in BOOLEAN}

NextSnippet ==
    \/ \E url \in SnippetUrls, options \in SnippetOptions, body \in SnippetBodies,
          result \in Results : sendHttpRequest(url, options, body, result)
    \/ \E url \in SnippetUrls, options \in SnippetOptions, result \in Results :
          sendHttpGet(url, options, result)
    \/ EndEvent
    \/ EventCallback

SpecSnippet == InitSnippet /\ [][NextSnippet]_vars

\* ------------------------------------------- version 1 (src/template.tpl)
\* Version 1 has no seen-set and no sessions, always captures the GTM event,
\* and reconciles the persisted queue in the response handler of the POST.
\* initialize() and the listener run to completion before any response
\* handler runs; each action below is one such run.
getOptionsV1(d) ==
    [ MAX_BATCH_SIZE   |-> OrDefault(d.maxBatchSize, DEFAULT_BATCH_SIZE_V1),
      MAX_BATCH_AGE_MS |-> OrDefault(d.maxBatchAgeSeconds, DEFAULT_BATCH_AGE_SECONDS) * MS_PER_SECOND,
      SAMPLING_RATE    |-> OrDefault(d.samplingRate, DEFAULT_SAMPLING_RATE) ]

OPTIONS_V1 == getOptionsV1(data)

\* the template declares its sampling field under the name SamplingRate, so
\* that data.samplingRate is absent whatever is configured
ConfigV1 ==
    [ maxBatchSize : {0} \cup 1..MaxBatchInput,
      maxBatchAgeSeconds : {AgeSeconds},
      samplingRate : {0},
      useSessions : {FALSE},
      captureGTM : {FALSE} ]

\* the request processGTMEvent hands to createRawTrack: the body is the
\* object {event_data, original_request}
GtmRequestV1 ==
    [ url |-> "/g/collect?v=2", body |-> "{event_data,original_request}",
      method |-> Or(Undefined, "GET") ]

\* what the functions of version 1 read and write
StateV1 == [store |-> store, posts |-> posts, appended |-> appended]

\* sendBatch(queue): the POST is issued and its response awaited; the
\* persisted queue is left as it is
sendBatchV1(s, queue) ==
    IF Len(queue) = 0 THEN s
    ELSE [s EXCEPT !.posts = Append(@, [requests |-> queue, outcome |-> "pending"])]

\* addToQueue(rawTrack) when the sampling draw, if any, yields randomValue
addToQueueV1(s, rawTrack, randomValue) ==
    IF OPTIONS_V1.SAMPLING_RATE > 1 /\ randomValue > 1 THEN s
    ELSE LET read == s.store.rawTrackQueue
             queueStartTime == IF Len(read) = 0 THEN now ELSE s.store.queueStartTime
             queue == Append(read, rawTrack)
             stored == [s EXCEPT !.store.queueStartTime = queueStartTime,
                                 !.store.rawTrackQueue = queue,
                                 !.appended = Append(@, rawTrack)]
             dueToSize == Len(queue) >= OPTIONS_V1.MAX_BATCH_SIZE
             dueToTime == (now - queueStartTime) >= OPTIONS_V1.MAX_BATCH_AGE_MS
                             /\ Len(queue) > 0
         IN  IF dueToSize \/ dueToTime THEN sendBatchV1(stored, queue) ELSE stored

\* checkStaleQueue()
checkStaleQueueV1(s) ==
    LET queue == s.store.rawTrackQueue
        queueStartTime == s.store.queueStartTime
    IN  IF Len(queue) = 0 \/ queueStartTime = 0 THEN s
        ELSE IF (now - queueStartTime) >= OPTIONS_V1.MAX_BATCH_AGE_MS
             THEN sendBatchV1(s, queue)
             ELSE s

InitV1 ==
    /\ data \in ConfigV1
    /\ store = [rawTrackQueue |-> <<>>, queueStartTime |-> 0, seenHashes |-> <<>>]
    /\ now = T0
    /\ inv = [i \in Inv |-> Locals0]
    /\ nextId = 1
    /\ posts = <<>>
    /\ appended = <<>>
    /\ monitored = Monitored0

\* a run of the tag: initialize() from processGTMEvent to data.gtmOnSuccess()
InitializeV1(i) ==
    /\ inv[i].pc = "idle"
    /\ \A j \in Inv : j < i => inv[j].pc # "idle"
    /\ nextId <= MaxRecordsV1
    /\ \E randomValue \in 1..OPTIONS_V1.SAMPLING_RATE :
         LET raw_track == createRawTrack("ssgtm_event", GtmRequestV1)
             processed == addToQueueV1(StateV1, raw_track, randomValue)
             checked == checkStaleQueueV1(processed)
         IN  /\ store' = checked.store
             /\ posts' = checked.posts
             /\ appended' = checked.appended
    /\ nextId' = nextId + 1
    /\ Set(i, [Locals0 EXCEPT !.pc = "ready", !.staleChecks = 1, !.gtmOnSuccess = 1])
    /\ UNCHANGED <<monitored, data, now>>

\* the tp_request listener called with a valid message
ListenerV1(i, message) ==
    /\ inv[i].pc = "ready"
    /\ ~InvalidMessage(message)
    /\ nextId <= MaxRecordsV1
    /\ \E randomValue \in 1..OPTIONS_V1.SAMPLING_RATE :
         LET request == [url |-> message.url, body |-> Or(message.body, Null),
                         method |-> "POST"]
             raw_track == createRawTrack("ssgtm_message", request)
             added == addToQueueV1(StateV1, raw_track, randomValue)
         IN  /\ store' = added.store
             /\ posts' = added.posts
             /\ appended' = added.appended
    /\ nextId' = nextId + 1
    /\ UNCHANGED <<monitored, data, now, inv>>

MessageV1(i) == \E message \in PlainMessages : ListenerV1(i, message)

\* sendBatch's .then handler: the response to POST k has arrived, with
\* whatever status code, and the persisted queue is reconciled
ThenV1(k, statusCode) ==
    /\ k \in 1..Len(posts)
    /\ posts[k].outcome = "pending"
    /\ posts' = [posts EXCEPT ![k].outcome = IF statusCode = 200 THEN "ok" ELSE "http_error"]
    /\ LET queue == posts[k].requests
           currentQueue == store.rawTrackQueue
       IN  IF KeepTail(currentQueue, Len(queue))
           THEN store' = [store EXCEPT !.rawTrackQueue = updatedQueue(currentQueue, Len(queue))]
           ELSE store' = [store EXCEPT !.rawTrackQueue = <<>>, !.queueStartTime = 0]
    /\ UNCHANGED <<monitored, data, now, inv, nextId, appended>>

\* sendBatch's .catch handler: POST k failed in transport
CatchV1(k) ==
    /\ k \in 1..Len(posts)
    /\ posts[k].outcome = "pending"
    /\ posts' = [posts EXCEPT ![k].outcome = "error"]
    /\ UNCHANGED <<monitored, data, store, now, inv, nextId, appended>>

StatusCodes == {200, 500}

NextV1 ==
    \/ \E i \in Inv : InitializeV1(i)
    \/ \E i \in Inv : MessageV1(i)
    \/ \E i \in Inv : Finish(i)
    \/ Tick
    \/ \E k \in 1..Len(posts), statusCode \in StatusCodes : ThenV1(k, statusCode)
    \/ \E k \in 1..Len(posts) : CatchV1(k)

SpecV1 == InitV1 /\ [][NextV1]_vars

\* ------------------------------------------------- the tags of the records
\* OPTIONS.CUSTOM_TAGS is one object per run of the tag.  createRawTrack
\* puts a reference to it into every record (line 276) and sendBatch adds the
\* container version to it (lines 483-488); setItemCopy, getItemCopy and
\* JSON.stringify copy what the reference points to at that moment.  A mapping
\* is a set of <<key, value>> pairs; a key is a sequence of words, " " being
\* white space.  Calls do not overlap here: every action is a whole run of
\* initialize or of the listener.
TagKeys == {<<>>, <<" ">>, <<"team">>}
TagValues == {"web"}
TagPairs == [key : TagKeys, value : TagValues]
TagLists == {<<>>} \cup {<<p>> : p \in TagPairs}

\* String.prototype.trim
RECURSIVE TrimLeft(_)
TrimLeft(key) ==
    IF key # <<>> /\ Head(key) = " " THEN TrimLeft(Tail(key)) ELSE key

RECURSIVE TrimRight(_)
TrimRight(key) ==
    IF key # <<>> /\ key[Len(key)] = " " THEN TrimRight(SubSeq(key, 1, Len(key) - 1)) ELSE key

Trim(key) == TrimRight(TrimLeft(key))

\* object[key] = value
Put(object, key, value) == {p \in object : p[1] # key} \cup {<<key, value>>}

\* getOptions, lines 69 and 78-87: the pairs with a non-empty key, in order
RECURSIVE CustomTags(_, _)
CustomTags(object, tagList) ==
    IF tagList = <<>> THEN object
    ELSE LET tagPair == Head(tagList)
             kept == IF tagPair.key # <<>> /\ Trim(tagPair.key) # <<>>
                     THEN Put(object, tagPair.key, tagPair.value) ELSE object
         IN  CustomTags(kept, Tail(tagList))

\* getContainerVersion().version
ContainerVersion == "7"

\* the tags field of a record: a reference to OPTIONS.CUSTOM_TAGS, or a copy
CustomTagsRef == [ref |-> TRUE, value |-> {}]
TagsCopy(object) == [ref |-> FALSE, value |-> object]

\* createRawTrack with the tags field: "tags": OPTIONS.CUSTOM_TAGS
createRawTrackTags(provider, request) ==
    LET r == createRawTrack(provider, request)
    IN  [ id |-> r.id, provider |-> r.provider, endpoint |-> r.endpoint,
          method |-> r.method, post_payload |-> r.post_payload, tags |-> CustomTagsRef ]

\* what a copy of record r holds while OPTIONS.CUSTOM_TAGS is `object`
CopyRecord(r, object) == IF r.tags.ref THEN [r EXCEPT !.tags = TagsCopy(object)] ELSE r

CopyQueue(q, object) == [k \in 1..Len(q) |-> CopyRecord(q[k], object)]

\* what the functions read and write: the store, the POSTs, the records as
\* createRawTrack returned them, and the run's OPTIONS.CUSTOM_TAGS
StateTags(object) ==
    [store |-> store, posts |-> posts, appended |-> appended, CUSTOM_TAGS |-> object]

\* sendBatch(queue), as one call: tags is OPTIONS.CUSTOM_TAGS itself, the
\* payload is serialised after the container version has been added
sendBatchTags(s, queue) ==
    IF Len(queue) = 0 THEN s
    ELSE LET tags == Put(s.CUSTOM_TAGS, <<"gtm_container_version">>, ContainerVersion)
             payload == [ requests |-> CopyQueue(queue, tags), tags |-> tags,
                          outcome |-> "pending" ]
             currentQueue == s.store.rawTrackQueue
         IN  [ s EXCEPT
                 !.CUSTOM_TAGS = tags,
                 !.store = IF KeepTail(currentQueue, Len(queue))
                           THEN [@ EXCEPT !.rawTrackQueue = updatedQueue(currentQueue, Len(queue))]
                           ELSE [@ EXCEPT !.rawTrackQueue = <<>>, !.queueStartTime = 0],
                 !.posts = Append(@, payload) ]

\* addToQueue(rawTrack), as one call, at sampling rate 1
addToQueueTags(s, rawTrack) ==
    LET read == s.store.rawTrackQueue
        queueStartTime == IF Len(read) = 0 THEN now ELSE s.store.queueStartTime
        queue == Append(read, rawTrack)
        stored == [ s EXCEPT !.store.queueStartTime = queueStartTime,
                             !.store.rawTrackQueue = CopyQueue(queue, s.CUSTOM_TAGS),
                             !.appended = Append(@, CopyRecord(rawTrack, s.CUSTOM_TAGS)) ]
    IN  IF ShouldSend(queue, queueStartTime, now) THEN sendBatchTags(stored, queue) ELSE stored

\* checkStaleQueue(), as one call
checkStaleQueueTags(s) ==
    LET queue == s.store.rawTrackQueue
        queueStartTime == s.store.queueStartTime
    IN  IF NoStaleQueue(queue, queueStartTime) THEN s
        ELSE IF IsStale(queueStartTime, now) THEN sendBatchTags(s, queue) ELSE s

ConfigTags ==
    [ maxBatchSize : {0} \cup 2..MaxBatchInput,
      maxBatchAgeSeconds : {AgeSeconds},
      samplingRate : {0},
      useSessions : {FALSE},
      captureGTM : BOOLEAN,
      tags : TagLists ]

InitTags ==
    /\ data \in ConfigTags
    /\ store = [rawTrackQueue |-> <<>>, queueStartTime |-> 0, seenHashes |-> <<>>]
    /\ now = T0
    /\ inv = [i \in Inv |-> Locals0]
    /\ nextId = 1
    /\ posts = <<>>
    /\ appended = <<>>
    /\ monitored = Monitored0

\* a run of the tag, for a GTM event without a token: getOptions, then
\* initialize() from processGTMEvent to data.gtmOnSuccess()
InitializeTags(i) ==
    /\ inv[i].pc = "idle"
    /\ \A j \in Inv : j < i => inv[j].pc # "idle"
    /\ OPTIONS.CAPTURE_GTM => nextId <= MaxRecordsTags
    /\ LET loaded == StateTags(CustomTags({}, data.tags))
           processed == IF OPTIONS.CAPTURE_GTM
                        THEN addToQueueTags(loaded, createRawTrackTags("ssgtm_event", GtmRequest))
                        ELSE loaded
           checked == checkStaleQueueTags(processed)
       IN  /\ store' = checked.store
           /\ posts' = checked.posts
           /\ appended' = checked.appended
           /\ inv' = [inv EXCEPT ![i] = [pc |-> "ready", CUSTOM_TAGS |-> checked.CUSTOM_TAGS]]
    /\ nextId' = IF OPTIONS.CAPTURE_GTM THEN nextId + 1 ELSE nextId
    /\ UNCHANGED <<monitored, data, now>>

\* the tp_request listener called with a valid message
ListenerTags(i, message) ==
    /\ inv[i].pc = "ready"
    /\ ~InvalidMessage(message)
    /\ nextId <= MaxRecordsTags
    /\ LET request == [url |-> message.url, body |-> Or(message.body, Null),
                       method |-> "POST"]
           raw_track == createRawTrackTags("ssgtm_message", request)
           added == addToQueueTags(StateTags(inv[i].CUSTOM_TAGS), raw_track)
       IN  /\ store' = added.store
           /\ posts' = added.posts
           /\ appended' = added.appended
           /\ inv' = [inv EXCEPT ![i].CUSTOM_TAGS = added.CUSTOM_TAGS]
    /\ nextId' = nextId + 1
    /\ UNCHANGED <<monitored, data, now>>

MessageTags(i) == \E message \in PlainMessages : ListenerTags(i, message)

NextTags ==
    \/ \E i \in Inv : InitializeTags(i)
    \/ \E i \in Inv : MessageTags(i)
    \/ \E i \in Inv : Finish(i)
    \/ Tick

SpecTags == InitTags /\ [][NextTags]_vars

\* =================================================================== claims
AllQuiescent == \A i \in Inv : Quiescent(i)

Records(q) == {q[k] : k \in 1..Len(q)}

IsPrefix(p, q) == Len(p) <= Len(q) /\ SubSeq(q, 1, Len(p)) = p

\* invocation i takes a step from position p
StepsFrom(i, p) == inv[i].pc = p /\ inv'[i] # inv[i]

InAddToQueue(l) == l.pc \in {"aq_sample", "aq_getq", "aq_getst", "aq_setst", "aq_setq", "aq_check"}

InSendBatch(l) == l.pc \in {"sb_getq", "sb_setq", "sb_setst", "sb_send"}

Last(q) == q[Len(q)]

IsSuffix(p, q) == Len(p) <= Len(q) /\ SubSeq(q, Len(q) - Len(p) + 1, Len(q)) = p

C2_StartTimeIffEmpty ==
    AllQuiescent => ((store.queueStartTime = 0) <=> (store.rawTrackQueue = <<>>))

\* a batch has been sent and a new queue is accumulating
C2_Witness ==
    /\ AllQuiescent
    /\ posts # <<>>
    /\ store.rawTrackQueue # <<>>
    /\ store.queueStartTime # 0

\* C3: flush triggers.  When addToQueue has pushed and stored the record, it
\* calls sendBatch with the whole queue, new record included, if the queue has
\* reached MAX_BATCH_SIZE or its age has reached MAX_BATCH_AGE_MS, and
\* otherwise returns without a send.
C3_FlushTriggers ==
    [][\A i \in Inv :
         StepsFrom(i, "aq_check") =>
            LET q == inv[i].queue
                due == \/ Len(q) >= OPTIONS.MAX_BATCH_SIZE
                       \/ now - inv[i].queueStartTime >= OPTIONS.MAX_BATCH_AGE_MS
            IN  /\ q # <<>>
                /\ q[Len(q)] = inv[i].rawTrack
                /\ posts' = posts
                /\ due => /\ inv'[i].pc = "sb_getq"
                          /\ inv'[i].queueToSend = q
                /\ ~due => inv'[i].pc \in {"st_getq", "ready"}]_vars

\* a send triggered by age while the queue is below MAX_BATCH_SIZE
C3_Witness ==
    \E i \in Inv :
        /\ inv[i].pc = "sb_getq"
        /\ inv[i].caller \in {"gtm", "msg"}
        /\ Len(inv[i].queueToSend) < OPTIONS.MAX_BATCH_SIZE
        /\ inv[i].queueToSend[Len(inv[i].queueToSend)] = inv[i].rawTrack

\* C4: with N = MAX_BATCH_SIZE, an empty store at the start and non-overlapping
\* invocations, while everything happens within MAX_BATCH_AGE_MS: fewer than N
\* pushes issue no POST and leave the pushed records queued; the N-th push has
\* issued exactly one POST carrying all N records in push order, and has left
\* the queue empty and queueStartTime 0.
C4_BatchOfN ==
    (AllQuiescent
       /\ now - T0 < OPTIONS.MAX_BATCH_AGE_MS
       /\ Len(appended) <= OPTIONS.MAX_BATCH_SIZE)
    => IF Len(appended) < OPTIONS.MAX_BATCH_SIZE
       THEN posts = <<>> /\ store.rawTrackQueue = appended
       ELSE /\ Len(posts) = 1
            /\ posts[1].requests = appended
            /\ store.rawTrackQueue = <<>>
            /\ store.queueStartTime = 0

\* the N-th record, N >= 2, has been pushed within the age limit
C4_Witness ==
    /\ AllQuiescent
    /\ now - T0 < OPTIONS.MAX_BATCH_AGE_MS
    /\ OPTIONS.MAX_BATCH_SIZE >= 2
    /\ Len(appended) = OPTIONS.MAX_BATCH_SIZE
    /\ Len(posts) = 1
    /\ posts[1].requests = appended

\* C5: with MAX_BATCH_SIZE = 1, an empty store at the start and
\* non-overlapping invocations, the k-th pushed record is the only record of
\* the k-th POST, and that POST is issued before the addToQueue call that
\* pushed the record returns.
C5_SingleSends ==
    OPTIONS.MAX_BATCH_SIZE = 1 =>
       /\ Len(posts) <= Len(appended)
       /\ \A k \in 1..Len(posts) : posts[k].requests = <<appended[k]>>
       /\ Len(posts) < Len(appended) =>
             /\ Len(appended) = Len(posts) + 1
             /\ \E i \in Inv :
                   /\ inv[i].pc = "aq_check" \/ InSendBatch(inv[i])
                   /\ inv[i].caller \in {"gtm", "msg"}
                   /\ inv[i].rawTrack = appended[Len(appended)]

\* two records were pushed and each went out alone
C5_Witness ==
    /\ OPTIONS.MAX_BATCH_SIZE = 1
    /\ AllQuiescent
    /\ Len(appended) = 2
    /\ Len(posts) = 2
    /\ posts[2].requests = <<appended[2]>>

\* C6 (as amended): checkStaleQueue decides on the queue and start time it
\* read.  If that queue is not empty, that start time is not 0 and the age has
\* reached MAX_BATCH_AGE_MS, it calls sendBatch with the whole queue it read;
\* otherwise it returns without a send.  In neither case does it push a
\* record or write to the store.
C6_StaleCheck ==
    [][\A i \in Inv :
         /\ StepsFrom(i, "st_getst") =>
               /\ UNCHANGED <<store, posts, nextId, appended>>
               /\ IF Len(inv[i].queue) = 0 \/ store.queueStartTime = 0
                  THEN inv'[i].pc = "success"
                  ELSE /\ inv'[i].pc = "st_check"
                       /\ inv'[i].queue = inv[i].queue
                       /\ inv'[i].queueStartTime = store.queueStartTime
         /\ StepsFrom(i, "st_check") =>
               /\ UNCHANGED <<store, posts, nextId, appended>>
               /\ IF now - inv[i].queueStartTime >= OPTIONS.MAX_BATCH_AGE_MS
                  THEN /\ inv'[i].pc = "sb_getq"
                       /\ inv'[i].queueToSend = inv[i].queue
                  ELSE inv'[i].pc = "success"]_vars

\* a stale queue handed to sendBatch by checkStaleQueue
C6_Witness ==
    \E i \in Inv :
        /\ inv[i].pc = "sb_getq"
        /\ inv[i].caller = "stale"
        /\ inv[i].queueToSend # <<>>
        /\ inv[i].queueToSend = store.rawTrackQueue

\* C6 (as stated): whenever the persisted queue, as checkStaleQueue read it,
\* is not empty and now - queueStartTime >= MAX_BATCH_AGE_MS, a queueStartTime
\* of 0 included, checkStaleQueue goes on to send.
C6_Original ==
    [][\A i \in Inv :
         ( /\ StepsFrom(i, "st_getst")
           /\ Len(inv[i].queue) > 0
           /\ store.rawTrackQueue = inv[i].queue
           /\ now - store.queueStartTime >= OPTIONS.MAX_BATCH_AGE_MS )
         => inv'[i].pc # "success"]_vars

\* C7 (as amended): every invocation runs the stale-queue check exactly once:
\* after processGTMEvent has dealt with the invocation's own GTM event (when
\* capture is on) and before gtmOnSuccess and any relayed message.
C7_StaleOnceAfterGtm ==
    \A i \in Inv :
        /\ inv[i].staleChecks <= 1
        /\ ( \/ inv[i].pc \in {"gtm_hash", "gtm_hash_set", "st_getq"}
             \/ inv[i].caller = "gtm" ) => inv[i].staleChecks = 0
        /\ ( \/ inv[i].pc \in {"st_getst", "st_check", "success", "ready", "msg_invalid"}
             \/ inv[i].caller \in {"stale", "msg"} ) => inv[i].staleChecks = 1

\* an invocation that pushed its GTM event and then ran the stale check
C7_Witness ==
    \E i \in Inv :
        /\ OPTIONS.CAPTURE_GTM
        /\ inv[i].pc = "st_getst"
        /\ inv[i].staleChecks = 1
        /\ appended # <<>>
        /\ \A j \in Inv \ {i} : inv[j].pc = "idle"

\* C7 (as stated): the stale check has run before the invocation
\* deduplicates, samples or appends any captured event.
C7_Original ==
    \A i \in Inv :
        (inv[i].pc \in {"gtm_hash", "gtm_hash_set"} \/ InAddToQueue(inv[i]))
           => inv[i].staleChecks = 1

\* C8 (as amended): with non-overlapping invocations, the records of every
\* POST issued are no longer in the persisted queue, whatever the outcome of
\* the POST, and the response handlers write nothing and issue no POST.
C8_ClearedBeforeSend ==
    /\ [](\A k \in 1..Len(posts) :
             Records(posts[k].requests) \cap Records(store.rawTrackQueue) = {})
    /\ [][(Len(posts') = Len(posts) /\ posts' # posts) =>
             /\ UNCHANGED <<store, inv, nextId, appended>>
             /\ \A k \in 1..Len(posts) : posts'[k].requests = posts[k].requests]_vars

\* a POST failed in transport and another got a non-2xx answer
C8_Witness ==
    /\ AllQuiescent
    /\ \E k \in 1..Len(posts) : posts[k].outcome = "error"
    /\ \E k \in 1..Len(posts) : posts[k].outcome = "http_error"

\* C8 (as stated): when a POST ended in a transport error or a non-2xx
\* response, its records are still in the persisted queue.
C8_Original ==
    \A k \in 1..Len(posts) :
        posts[k].outcome \in {"error", "http_error"}
           => Records(posts[k].requests) \subseteq Records(store.rawTrackQueue)

\* C9: every invocation calls data.gtmOnSuccess exactly once: not before
\* initialize reaches its end, once when it has, never again while it serves
\* relayed messages, and initialize never stops short of the call.
C9_OnSuccessOnce ==
    \A i \in Inv :
        /\ inv[i].gtmOnSuccess <= 1
        /\ (inv[i].pc \in {"ready", "msg_invalid"} \/ inv[i].caller = "msg")
              => inv[i].gtmOnSuccess = 1
        /\ ( \/ inv[i].pc \in {"gtm_hash", "gtm_hash_set", "st_getq", "st_getst",
                               "st_check", "success"}
             \/ inv[i].caller \in {"gtm", "stale"} ) => inv[i].gtmOnSuccess = 0
        /\ ~Quiescent(i) => ENABLED Step(i)

\* an invocation that flushed a batch whose POST then failed
C9_Witness ==
    \E i \in Inv :
        /\ inv[i].pc = "ready"
        /\ inv[i].gtmOnSuccess = 1
        /\ \E k \in 1..Len(posts) : posts[k].outcome = "error"

\* C10: a GTM event whose token is in the seen-set when checkAndAddHash reads
\* it ends processGTMEvent there: control passes to the stale check with no
\* sampling draw, no record created and nothing written to the store.
C10_DuplicateSkipped ==
    [][\A i \in Inv :
         ( /\ StepsFrom(i, "gtm_hash")
           /\ \E k \in 1..Len(store.seenHashes) : store.seenHashes[k] = inv[i].token )
         => /\ inv'[i].pc = "st_getq"
            /\ inv'[i].rawTrack = NoTrack
            /\ UNCHANGED <<store, nextId, appended, posts>>]_vars

\* a duplicate GTM event was skipped
C10_Witness ==
    \E i \in Inv : inv[i].duplicate /\ inv[i].pc = "st_getq"

\* C11 (as amended): a GTM submission with a non-empty token is rejected before
\* it reaches the queue exactly when the token is in the persisted seen-set at
\* the moment its checkAndAddHash reads the set; otherwise it puts the token
\* last in the set, saves the set and goes on to the queue with a new record.
C11_RejectedIffSeen ==
    [][\A i \in Inv :
         /\ StepsFrom(i, "gtm_hash") =>
               LET seen == \E k \in 1..Len(store.seenHashes) :
                              store.seenHashes[k] = inv[i].token
               IN  /\ inv[i].token # 0
                   /\ UNCHANGED <<store, nextId, appended, posts>>
                   /\ inv'[i].rawTrack = NoTrack
                   /\ seen <=> inv'[i].pc = "st_getq"
                   /\ ~seen => /\ inv'[i].pc = "gtm_hash_set"
                               /\ Last(inv'[i].seenHashes) = inv[i].token
         /\ StepsFrom(i, "gtm_hash_set") =>
               /\ store'.seenHashes = inv[i].seenHashes
               /\ Last(store'.seenHashes) = Last(inv[i].seenHashes)
               /\ inv'[i].pc = "aq_sample"
               /\ inv'[i].rawTrack.provider = "ssgtm_event"
               /\ inv'[i].rawTrack.id = nextId]_vars

\* a second submission of a token was rejected after the first one's record
\* had reached the queue
C11_Witness ==
    \E i, j \in Inv :
        /\ i # j
        /\ inv[i].duplicate
        /\ inv[i].pc = "st_getq"
        /\ inv[j].pc = "ready"
        /\ appended # <<>>
        /\ appended[1].provider = "ssgtm_event"

\* C11 (as stated): however the invocations are scheduled, a submission whose
\* token another submission has already recorded in the seen-set does not pass
\* the duplicate check.
C11_Original ==
    [][\A i \in Inv :
         StepsFrom(i, "gtm_hash_set") =>
            ~\E k \in 1..Len(store.seenHashes) :
                store.seenHashes[k] = Last(inv[i].seenHashes)]_vars

\* C12: eviction bound.  With calls that do not interleave and an empty
\* seen-set at the start, the persisted seen-set never holds more than
\* MAX_HASH_SIZE tokens, and a call that inserts a token leaves a suffix of the
\* previous seen-set followed by that token, the token itself included.
C12_EvictionBound ==
    /\ [](Len(store.seenHashes) <= MAX_HASH_SIZE)
    /\ [][\A hash \in 1..(MAX_HASH_SIZE + HashOverflow) :
             checkAndAddHash(hash) =>
                IF \E k \in 1..Len(store.seenHashes) : store.seenHashes[k] = hash
                THEN store' = store /\ inv'[1].duplicate
                ELSE /\ IsSuffix(store'.seenHashes, Append(store.seenHashes, hash))
                     /\ store'.seenHashes # <<>>
                     /\ Last(store'.seenHashes) = hash
                     /\ ~inv'[1].duplicate]_vars

\* the first token was evicted, submitted again and kept as the newest entry
C12_Witness ==
    /\ Len(store.seenHashes) = MAX_HASH_SIZE
    /\ store.seenHashes[1] > 1
    /\ Last(store.seenHashes) = 1
    /\ inv[1].token = 1
    /\ ~inv[1].duplicate

\* C13 (as amended): an insert that makes the seen-set exceed MAX_HASH_SIZE
\* evicts the single oldest entry, so that the seen-set holds MAX_HASH_SIZE
\* tokens right after it.
C13_EvictsOldest ==
    [][\A hash \in 0..(MAX_HASH_SIZE + HashOverflow) :
         ( /\ checkAndAddHash(hash)
           /\ store' # store
           /\ Len(store.seenHashes) = MAX_HASH_SIZE )
         => /\ store'.seenHashes = Append(Tail(store.seenHashes), hash)
            /\ Len(store'.seenHashes) = MAX_HASH_SIZE]_vars

\* the seen-set right after the first overflowing insert
C13_Witness ==
    /\ Len(store.seenHashes) = MAX_HASH_SIZE
    /\ store.seenHashes[1] = 2
    /\ Last(store.seenHashes) = MAX_HASH_SIZE + 1

\* C13 (as stated): an overflowing insert evicts the oldest
\* floor(MAX_HASH_SIZE / 2) entries and leaves
\* MAX_HASH_SIZE + 1 - floor(MAX_HASH_SIZE / 2) tokens.
C13_Original ==
    [][\A hash \in 0..(MAX_HASH_SIZE + HashOverflow) :
         ( /\ checkAndAddHash(hash)
           /\ store' # store
           /\ Len(store.seenHashes) = MAX_HASH_SIZE )
         => Len(store'.seenHashes) = MAX_HASH_SIZE + 1 - (MAX_HASH_SIZE \div 2)]_vars

\* C14: the sampler of addToQueue.  With SAMPLING_RATE <= 1 every record is
\* admitted without a draw.  Otherwise each record gets a draw of its own from
\* 1..SAMPLING_RATE, whose outcome is open whatever happened before, and the
\* record is admitted exactly when the draw is 1.  An admitted record is the
\* one addToQueue then appends; a record that is not admitted makes addToQueue
\* return with rawTrackQueue and queueStartTime untouched and no send.
C14_Sampler ==
    /\ [](\A i \in Inv :
             /\ inv[i].pc = "aq_sample" =>
                   /\ inv[i].rawTrack # NoTrack
                   /\ ENABLED (Sample(i) /\ inv'[i].pc = "aq_getq")
                   /\ (OPTIONS.SAMPLING_RATE > 1)
                         <=> ENABLED (Sample(i) /\ inv'[i].pc # "aq_getq")
             /\ inv[i].pc \in {"aq_getq", "aq_getst", "aq_setst", "aq_setq"} =>
                   inv[i].rawTrack # NoTrack /\ ENABLED Step(i))
    /\ [][\A i \in Inv :
             /\ StepsFrom(i, "aq_sample") =>
                   LET admitted == inv'[i].pc = "aq_getq" IN
                   /\ UNCHANGED <<store, posts, appended, nextId>>
                   /\ OPTIONS.SAMPLING_RATE <= 1 => admitted
                   /\ OPTIONS.SAMPLING_RATE > 1 =>
                         /\ \E randomValue \in 1..OPTIONS.SAMPLING_RATE :
                               SampleDraw(i, randomValue)
                         /\ \A randomValue \in 1..OPTIONS.SAMPLING_RATE :
                               SampleDraw(i, randomValue) => (admitted <=> randomValue = 1)
                   /\ admitted => inv'[i].rawTrack = inv[i].rawTrack
                   /\ ~admitted => /\ inv'[i].rawTrack = NoTrack
                                   /\ inv'[i].pc \in {"st_getq", "ready"}
             /\ (inv[i].pc \in {"aq_getq", "aq_getst", "aq_setst"} /\ inv'[i] # inv[i]) =>
                   /\ inv'[i].rawTrack = inv[i].rawTrack
                   /\ inv'[i].pc \in {"aq_getst", "aq_setst", "aq_setq"}
             /\ StepsFrom(i, "aq_setq") =>
                   /\ appended' = Append(appended, inv[i].rawTrack)
                   /\ store'.rawTrackQueue # <<>>
                   /\ Last(store'.rawTrackQueue) = inv[i].rawTrack]_vars

\* of two records sampled at a rate above 1, one was admitted and appended and
\* the other was skipped
C14_Witness ==
    /\ OPTIONS.SAMPLING_RATE > 1
    /\ nextId = 3
    /\ Len(appended) = 1
    /\ \A i \in Inv : inv[i].rawTrack = NoTrack

\* C15 (as amended): a relayed message with a non-empty url yields exactly one
\* new record with provider "ssgtm_message", the message url as endpoint,
\* method "POST", and as payload the message body when that is not empty and
\* null when the body is absent or empty; the record is passed to addToQueue.
C15_MessageRecord ==
    [][\A i \in Inv : \A message \in Messages :
         ( /\ Listener(i, message)
           /\ message.present
           /\ message.url \notin {Undefined, ""} )
         => /\ inv'[i].pc = "aq_sample"
            /\ inv'[i].caller = "msg"
            /\ inv'[i].rawTrack =
                  [ id |-> nextId, provider |-> "ssgtm_message",
                    endpoint |-> message.url, method |-> "POST",
                    post_payload |-> IF message.body \in {Undefined, ""}
                                     THEN Null ELSE message.body ]
            /\ nextId' = nextId + 1
            /\ UNCHANGED <<store, posts, appended>>]_vars

\* two relayed messages, one without and one with a body, became records
C15_Witness ==
    /\ Len(appended) = 2
    /\ appended[1].provider = "ssgtm_message"
    /\ appended[1].post_payload = Null
    /\ appended[2].provider = "ssgtm_message"
    /\ appended[2].post_payload \in Bodies
    /\ appended[2].endpoint \in Urls

\* C15 (as stated): the payload of the record equals the message body
\* whenever the message has one, and is null only when the body is absent.
C15_Original ==
    [][\A i \in Inv : \A message \in Messages :
         ( /\ Listener(i, message)
           /\ message.present
           /\ message.url \notin {Undefined, ""} )
         => inv'[i].rawTrack.post_payload =
               IF message.body = Undefined THEN Null ELSE message.body]_vars

\* C16: a relayed message that is absent, or whose url is missing or empty,
\* is reported and dropped: no record is created, nothing is written to the
\* store, no POST is issued, and the listener is back waiting, ready to take
\* a valid message.
C16_InvalidDropped ==
    /\ [](\A i \in Inv :
             /\ inv[i].pc = "msg_invalid" =>
                   inv[i].rawTrack = NoTrack /\ ENABLED DropMessage(i)
             /\ (inv[i].pc = "ready" /\ nextId <= MaxRecords) =>
                   \A message \in Messages :
                      (message.present /\ message.url \in Urls)
                         => ENABLED (Listener(i, message) /\ inv'[i].pc = "aq_sample"))
    /\ [][\A i \in Inv :
             /\ \A message \in Messages :
                   ( /\ Listener(i, message)
                     /\ ~message.present \/ message.url \in {Undefined, ""} )
                   => /\ inv'[i] = [inv[i] EXCEPT !.pc = "msg_invalid"]
                      /\ UNCHANGED <<data, store, now, nextId, posts, appended>>
             /\ StepsFrom(i, "msg_invalid") =>
                   /\ inv'[i] = [inv[i] EXCEPT !.pc = "ready"]
                   /\ UNCHANGED <<data, store, now, nextId, posts, appended>>]_vars

\* an invalid message is being dropped while a record waits in the queue
C16_Witness ==
    \E i \in Inv :
        /\ inv[i].pc = "msg_invalid"
        /\ store.rawTrackQueue # <<>>
        /\ nextId <= MaxRecords

\* C17: every call of sendBatch is made with a non-empty snapshot and issues
\* exactly one POST, as its last step, whose requests list is the snapshot,
\* record for record and in order; sendBatch given an empty snapshot returns
\* at once, with no store access and no POST.
C17_OnePostPerCall ==
    /\ [](\A i \in Inv :
             /\ InSendBatch(inv[i]) => inv[i].queueToSend # <<>> /\ ENABLED Step(i)
             /\ inv[i].pc \in {"aq_check", "st_check"} =>
                   \A cookie \in Cookies(inv[i]), minted \in Minted :
                      LET l == BeginSend(inv[i], inv[i].caller, <<>>, cookie, minted)
                      IN  ~InSendBatch(l) /\ l.queueToSend = <<>>)
    /\ [][/\ \A i \in Inv :
               /\ (~InSendBatch(inv[i]) /\ InSendBatch(inv'[i])) =>
                     /\ inv[i].pc \in {"aq_check", "st_check"}
                     /\ inv'[i].pc = "sb_getq"
                     /\ inv'[i].queueToSend = inv[i].queue
                     /\ posts' = posts /\ store' = store
               /\ (InSendBatch(inv[i]) /\ inv[i].pc # "sb_send" /\ inv'[i] # inv[i]) =>
                     /\ InSendBatch(inv'[i]) /\ inv'[i].pc # "sb_getq"
                     /\ inv'[i].queueToSend = inv[i].queueToSend
                     /\ posts' = posts
               /\ StepsFrom(i, "sb_send") =>
                     /\ ~InSendBatch(inv'[i])
                     /\ Len(posts') = Len(posts) + 1
                     /\ SubSeq(posts', 1, Len(posts)) = posts
                     /\ Last(posts').requests = inv[i].queueToSend
          /\ posts' # posts => \E j \in Inv : StepsFrom(j, "sb_send")]_vars

\* a POST carried a GTM event and a relayed message, in the order they were
\* queued
C17_Witness ==
    \E k \in 1..Len(posts) :
        /\ Len(posts[k].requests) = 2
        /\ posts[k].requests[1].provider = "ssgtm_event"
        /\ posts[k].requests[2].provider = "ssgtm_message"
        /\ posts[k].requests = appended

\* C18: with non-overlapping invocations, an append that finds the queue
\* empty writes queueStartTime once, with the clock value it reads, and an
\* append that finds records in the queue does not write it; nothing but
\* such a first append ever sets queueStartTime to a non-zero value.
C18_StartTimeSetOnce ==
    [][/\ \A i \in Inv :
           /\ StepsFrom(i, "aq_getst") =>
                 (inv'[i].pc = "aq_setst" <=> store.rawTrackQueue = <<>>)
           /\ StepsFrom(i, "aq_setst") =>
                 /\ store.rawTrackQueue = <<>>
                 /\ store.queueStartTime = 0
                 /\ store'.queueStartTime = now
                 /\ inv'[i].pc = "aq_setq"
           /\ (InAddToQueue(inv[i]) /\ inv[i].pc # "aq_setst" /\ inv'[i] # inv[i]) =>
                 /\ store'.queueStartTime = store.queueStartTime
                 /\ inv'[i].pc # "aq_setst" \/ inv[i].pc = "aq_getst"
       /\ store'.queueStartTime \notin {store.queueStartTime, 0} =>
             \E j \in Inv : StepsFrom(j, "aq_setst")]_vars

\* a second record is being appended, later than the first, to a queue whose
\* start time is still the time of the first append
C18_Witness ==
    \E i \in Inv :
        /\ inv[i].pc = "aq_setq"
        /\ Len(inv[i].queue) = 1
        /\ inv[i].queue = store.rawTrackQueue
        /\ store.queueStartTime = T0
        /\ now > T0

\* C19: when sendBatch runs with session tracking on, updateAndGetSessionId
\* returns the value of the request's _TP_SID cookie and sets the cookie again
\* to that value if the cookie is present, and returns a newly minted id and
\* sets the cookie to it if the cookie is absent; the cookie is set with a
\* max-age of 30 minutes either way.
C19_SessionId ==
    \A i \in Inv :
        (InSendBatch(inv[i]) /\ OPTIONS.USE_SESSIONS) =>
           /\ inv[i].reqCookie \in {0, 1}
           /\ inv[i].setCookie.max_age = 30 * 60
           /\ inv[i].setCookie.value = inv[i].session_id
           /\ inv[i].reqCookie # 0 => inv[i].session_id = inv[i].reqCookie
           /\ inv[i].reqCookie = 0 => inv[i].session_id \in Uuids

\* two batches are being sent, one for a request with a session cookie and
\* one for a request without
C19_Witness ==
    \E i, j \in Inv :
        /\ OPTIONS.USE_SESSIONS
        /\ InSendBatch(inv[i]) /\ InSendBatch(inv[j])
        /\ inv[i].reqCookie = 1 /\ inv[i].session_id = 1
        /\ inv[i].setCookie = [value |-> 1, max_age |-> 1800]
        /\ inv[j].reqCookie = 0 /\ inv[j].session_id \in Uuids

\* C21 (as stated): whatever integers the configuration holds, absent, zero,
\* positive or negative, the options a run resolves have MAX_BATCH_SIZE >= 1,
\* MAX_BATCH_AGE_MS >= 0 and SAMPLING_RATE >= 1.
C21_Original ==
    \A i \in Inv :
        inv[i].pc = "loaded" =>
           /\ inv[i].OPTIONS.MAX_BATCH_SIZE >= 1
           /\ inv[i].OPTIONS.MAX_BATCH_AGE_MS >= 0
           /\ inv[i].OPTIONS.SAMPLING_RATE >= 1

\* C22: the monitoring snippet.  Every call of the wrapped sendHttpRequest
\* calls the original once with the same url, options and body and returns
\* what the original returned; every call of the wrapped sendHttpGet does so
\* with url and options.  Each call has exactly one tp_request message to its
\* name, relayed when the event has ended or waiting to be: {url, body} for
\* sendHttpRequest, {url} with no body field for sendHttpGet; once the
\* callbacks have run, one message per call has been relayed.
C22_Snippet ==
    /\ [](LET calls == monitored.calls
              messages == monitored.relayed \o monitored.callbacks
          IN  /\ Len(messages) = Len(calls)
              /\ \A k \in 1..Len(calls) :
                    IF calls[k].fn = "sendHttpRequest"
                    THEN /\ DOMAIN messages[k] = {"url", "body"}
                         /\ messages[k].url = calls[k].url
                         /\ messages[k].body = calls[k].body
                    ELSE /\ DOMAIN messages[k] = {"url"}
                         /\ messages[k].url = calls[k].url
              /\ calls # <<>> => monitored.returned = Last(calls).result
              /\ monitored.direct => monitored.callbacks = <<>>
              /\ (~monitored.direct /\ ~monitored.ended) => monitored.relayed = <<>>
              /\ (monitored.ended /\ monitored.callbacks # <<>>) => ENABLED EventCallback)
    /\ [][/\ \A url \in SnippetUrls, options \in SnippetOptions, result \in Results :
               /\ \A body \in SnippetBodies :
                     sendHttpRequest(url, options, body, result) =>
                        /\ monitored'.calls =
                              Append(monitored.calls,
                                     [fn |-> "sendHttpRequest", url |-> url,
                                      options |-> options, body |-> body,
                                      result |-> result])
                        /\ monitored'.returned = result
               /\ sendHttpGet(url, options, result) =>
                     /\ monitored'.calls =
                           Append(monitored.calls,
                                  [fn |-> "sendHttpGet", url |-> url,
                                   options |-> options, result |-> result])
                     /\ monitored'.returned = result
          /\ monitored'.relayed # monitored.relayed =>
                /\ Len(monitored'.relayed) = Len(monitored.relayed) + 1
                /\ ~monitored.direct => monitored'.calls = monitored.calls]_vars

\* the event has ended and the messages of a sendHttpRequest with a body and
\* of a sendHttpGet have been relayed
C22_Witness ==
    /\ ~monitored.direct
    /\ monitored.ended
    /\ monitored.callbacks = <<>>
    /\ Len(monitored.relayed) = Len(monitored.calls)
    /\ \E k, m \in 1..Len(monitored.calls) :
          /\ monitored.calls[k].fn = "sendHttpRequest"
          /\ monitored.calls[k].body # Undefined
          /\ monitored.relayed[k].body = monitored.calls[k].body
          /\ monitored.calls[m].fn = "sendHttpGet"
          /\ monitored.relayed[m] = [url |-> monitored.calls[m].url]

\* no invocation is inside addToQueue or sendBatch
NoneInQueueOps == \A i \in Inv : ~InAddToQueue(inv[i]) /\ ~InSendBatch(inv[i])

\* C23 (as amended): however the invocations interleave, whenever no
\* invocation is inside addToQueue or sendBatch, an empty rawTrackQueue goes
\* with a queueStartTime of 0.
C23_EmptyQueueNoStartTime ==
    NoneInQueueOps => (store.rawTrackQueue = <<>> => store.queueStartTime = 0)

\* two overlapping invocations have each sent a batch holding the same record
\* and left the queue empty
C23_Witness ==
    /\ NoneInQueueOps
    /\ store.rawTrackQueue = <<>>
    /\ store.queueStartTime = 0
    /\ Len(posts) = 2
    /\ Records(posts[1].requests) \cap Records(posts[2].requests) # {}

\* C23 (as stated): however the invocations interleave, whenever no invocation
\* is inside addToQueue or sendBatch, queueStartTime is 0 exactly when
\* rawTrackQueue is empty.
C23_Original ==
    NoneInQueueOps => ((store.queueStartTime = 0) <=> (store.rawTrackQueue = <<>>))

\* record r can still reach the store or a POST from a local copy: the queue
\* read by addToQueue or checkStaleQueue, the snapshot of a sendBatch call, or
\* the queue sendBatch re-read and is about to write back
Held(r) ==
    \E i \in Inv :
        \/ r \in Records(inv[i].queue)
        \/ r \in Records(inv[i].queueToSend)
        \/ inv[i].pc = "sb_setq" /\ r \in Records(inv[i].currentQueue)

Posted(r) == \E k \in 1..Len(posts) : r \in Records(posts[k].requests)

\* record r was appended and persisted, and is now neither in the persisted
\* queue, nor in a POST, nor in any copy from which it could get there
Lost(r) ==
    /\ r \in Records(appended)
    /\ r \notin Records(store.rawTrackQueue)
    /\ ~Posted(r)
    /\ ~Held(r)

\* C24: lost update.  With interleaved invocations there is an execution in
\* which a record that was appended and persisted is overwritten by another
\* invocation's queue write without being part of any snapshot (the witness);
\* from then on no step brings it back into the queue or into a POST.
C24_LostForGood ==
    [][\A r \in Records(appended) : Lost(r) => Lost(r)']_vars

\* all invocations are between operations and the first record appended is
\* gone from the queue, unsent, while a later one has been sent
C24_Witness ==
    /\ AllQuiescent
    /\ Len(appended) = 2
    /\ Lost(appended[1])
    /\ Posted(appended[2])

\* C26: never double-send.  With non-overlapping invocations and an empty
\* store at the start, no record is in the requests list of more than one
\* POST, and none appears twice in one list.
C26_NeverDoubleSend ==
    /\ \A k, m \in 1..Len(posts) :
          k # m => Records(posts[k].requests) \cap Records(posts[m].requests) = {}
    /\ \A k \in 1..Len(posts) :
          Cardinality(Records(posts[k].requests)) = Len(posts[k].requests)

\* two batches have been sent, the second by a later invocation than the
\* first, and every record appended is in one of them
C26_Witness ==
    /\ AllQuiescent
    /\ Len(posts) = 2
    /\ posts[1].requests # <<>>
    /\ posts[2].requests # <<>>
    /\ appended = posts[1].requests \o posts[2].requests
    /\ store.rawTrackQueue = <<>>

\* C27: concurrent drains.  With interleaved invocations there is an execution
\* in which two invocations are in sendBatch at once with snapshots that hold
\* the same record (the witness).  Neither drain is altered or held back by
\* the other: a snapshot stays as it was taken whatever the other invocation
\* does, its invocation can always go on, and the POST it issues carries the
\* whole snapshot, so that the record goes out in both POSTs.
C27_DrainsIndependent ==
    /\ [](\A i \in Inv : InSendBatch(inv[i]) => ENABLED Step(i))
    /\ [][\A i \in Inv :
             /\ InSendBatch(inv[i]) =>
                   \/ inv'[i] = inv[i]
                   \/ /\ \A j \in Inv \ {i} : inv'[j] = inv[j]
                      /\ inv[i].pc # "sb_send" =>
                            /\ InSendBatch(inv'[i])
                            /\ inv'[i].queueToSend = inv[i].queueToSend
             /\ StepsFrom(i, "sb_send") =>
                   /\ posts' = Append(posts, [requests |-> inv[i].queueToSend,
                                              outcome |-> "pending"])
                   /\ Records(inv[i].queueToSend) \subseteq
                         UNION {Records(posts'[k].requests) : k \in 1..Len(posts')}]_vars

\* two invocations are in sendBatch at once, one of them about to POST, with
\* snapshots that hold the same record
C27_Witness ==
    \E i, j \in Inv :
        /\ i # j
        /\ inv[i].pc = "sb_send"
        /\ InSendBatch(inv[j])
        /\ Records(inv[i].queueToSend) \cap Records(inv[j].queueToSend) # {}

\* C28 (as stated): from an empty store, every POST carries at least 1 and at
\* most MAX_BATCH_SIZE records, however the invocations interleave.
C28_Original ==
    \A k \in 1..Len(posts) :
        /\ Len(posts[k].requests) >= 1
        /\ Len(posts[k].requests) <= OPTIONS.MAX_BATCH_SIZE

\* C25 (as stated): in version 1 no record is dropped from the persisted
\* queue without having been sent: every record that was appended and is no
\* longer in the queue is in the requests list of a POST.
C25_Original ==
    \A r \in Records(appended) \ Records(store.rawTrackQueue) :
        \E k \in 1..Len(posts) : r \in Records(posts[k].requests)

\* C29 (as stated): in version 1 the persisted queue is reconciled only
\* after a 2xx response: when the POST fails in transport or gets a non-2xx
\* response, rawTrackQueue and queueStartTime stay as they are.
C29_Original ==
    [][\A k \in 1..Len(posts) :
         ( /\ Len(posts') = Len(posts)
           /\ posts[k].outcome = "pending"
           /\ posts'[k].outcome \in {"error", "http_error"} )
         => UNCHANGED store]_vars

\* C30 (as stated): in version 1, once the addToQueue of a run has POSTed a
\* snapshot, the checkStaleQueue of the same run does not POST those records
\* again: the POSTs issued by one run of initialize have no record in common.
C30_Original ==
    [][\A i \in Inv :
         (inv[i].pc = "idle" /\ inv'[i].pc = "ready") =>
            \A k, m \in (Len(posts) + 1)..Len(posts') :
               k # m => Records(posts'[k].requests) \cap Records(posts'[m].requests) = {}]_vars

\* C31: the frame of sendBatch's reconciliation.  When the queue it re-read
\* is longer than the snapshot, sendBatch writes rawTrackQueue only, to the
\* re-read queue less its first len(snapshot) records, and goes on to the POST
\* with queueStartTime as it was; otherwise it writes rawTrackQueue to empty
\* and then queueStartTime to 0.  No step of sendBatch writes seenHashes, and
\* the re-read and the POST write nothing at all.
C31_ReconciliationFrame ==
    [][\A i \in Inv :
         /\ StepsFrom(i, "sb_setq") =>
               LET n == Len(inv[i].queueToSend)
                   current == inv[i].currentQueue
               IN  IF Len(current) > n
                   THEN /\ store' = [store EXCEPT !.rawTrackQueue =
                                                     SubSeq(current, n + 1, Len(current))]
                        /\ inv'[i].pc = "sb_send"
                   ELSE /\ store' = [store EXCEPT !.rawTrackQueue = <<>>]
                        /\ inv'[i].pc = "sb_setst"
         /\ StepsFrom(i, "sb_setst") =>
               /\ store' = [store EXCEPT !.queueStartTime = 0]
               /\ inv'[i].pc = "sb_send"
         /\ (StepsFrom(i, "sb_getq") \/ StepsFrom(i, "sb_send")) => store' = store
         /\ (InSendBatch(inv[i]) /\ inv'[i] # inv[i]) =>
               store'.seenHashes = store.seenHashes]_vars

\* a partial clear has been written and the POST is next: the queue holds the
\* records appended since the snapshot and the start time is still running
C31_Witness ==
    \E i \in Inv :
        /\ inv[i].pc = "sb_send"
        /\ Len(inv[i].currentQueue) > Len(inv[i].queueToSend)
        /\ store.rawTrackQueue =
              SubSeq(inv[i].currentQueue, Len(inv[i].queueToSend) + 1, Len(inv[i].currentQueue))
        /\ store.queueStartTime # 0
        /\ store.seenHashes # <<>>

\* C32: the order of addToQueue.  Every call reads rawTrackQueue and then
\* queueStartTime from the store as they are at that moment, whatever an
\* earlier call of the same invocation has read; it then writes the start
\* time, if the queue it read was empty, and the queue with the record pushed;
\* only then does it evaluate the flush conditions, on the queue it has
\* written, and only from there does it go on to a send.  Up to that point it
\* has issued no POST.
C32_ReadWriteThenFlush ==
    /\ [](\A i \in Inv :
             /\ inv[i].pc \in {"aq_sample", "aq_getq"} =>
                   inv[i].queue = <<>> /\ inv[i].queueStartTime = 0
             /\ inv[i].pc = "aq_check" =>
                   /\ inv[i].rawTrack \in Records(appended)
                   /\ inv[i].queue # <<>>
                   /\ Last(inv[i].queue) = inv[i].rawTrack)
    /\ [][\A i \in Inv :
             /\ StepsFrom(i, "aq_getq") =>
                   /\ inv'[i].queue = store.rawTrackQueue
                   /\ inv'[i].pc = "aq_getst"
                   /\ UNCHANGED <<store, posts, appended>>
             /\ StepsFrom(i, "aq_getst") =>
                   /\ inv'[i].queueStartTime = store.queueStartTime
                   /\ inv'[i].queue = inv[i].queue
                   /\ inv'[i].pc = IF inv[i].queue = <<>> THEN "aq_setst" ELSE "aq_setq"
                   /\ UNCHANGED <<store, posts, appended>>
             /\ StepsFrom(i, "aq_setst") =>
                   /\ store' = [store EXCEPT !.queueStartTime = now]
                   /\ inv'[i].queueStartTime = now
                   /\ inv'[i].pc = "aq_setq"
                   /\ UNCHANGED <<posts, appended>>
             /\ StepsFrom(i, "aq_setq") =>
                   /\ store' = [store EXCEPT !.rawTrackQueue =
                                                 Append(inv[i].queue, inv[i].rawTrack)]
                   /\ inv'[i].queue = store'.rawTrackQueue
                   /\ inv'[i].pc = "aq_check"
                   /\ UNCHANGED posts
             /\ StepsFrom(i, "aq_check") =>
                   /\ UNCHANGED <<store, posts, appended>>
                   /\ inv'[i].pc = "sb_getq" => inv'[i].queueToSend = inv[i].queue
             /\ (InAddToQueue(inv[i]) /\ inv[i].pc # "aq_check") => ~InSendBatch(inv'[i])]_vars

\* the second addToQueue call of an invocation, made for a relayed message
\* after the call for its GTM event had queued and sent a record: it has read
\* the queue as the send left it, not as the first call saw it
C32_Witness ==
    \E i \in Inv :
        /\ inv[i].pc = "aq_check"
        /\ inv[i].caller = "msg"
        /\ \A j \in Inv \ {i} : inv[j].pc = "idle"
        /\ Len(appended) = 2
        /\ appended[1].provider = "ssgtm_event"
        /\ Len(posts) = 1
        /\ posts[1].requests = <<appended[1]>>
        /\ inv[i].queue = <<appended[2]>>
        /\ inv[i].queueStartTime > T0

\* C33 (as stated): every record in the requests list of a POST, its tags
\* included, is as createRawTrack returned it.
C33_Original ==
    \A k \in 1..Len(posts) :
        \A j \in 1..Len(posts[k].requests) :
            posts[k].requests[j] \in Records(appended)

\* p lists some of the elements of q, in the order q lists them
RECURSIVE InOrderOf(_, _)
InOrderOf(p, q) ==
    IF p = <<>> THEN TRUE
    ELSE IF q = <<>> THEN FALSE
    ELSE IF Head(p) = Head(q) THEN InOrderOf(Tail(p), Tail(q))
    ELSE InOrderOf(p, Tail(q))

\* C34: FIFO.  With non-overlapping invocations the persisted queue always
\* lists its records in the order in which they were appended, each once, and
\* every queue write of sendBatch's reconciliation is a suffix of the queue
\* sendBatch has just re-read: only a prefix is removed.
C34_Fifo ==
    /\ [](/\ InOrderOf(store.rawTrackQueue, appended)
          /\ Cardinality(Records(store.rawTrackQueue)) = Len(store.rawTrackQueue))
    /\ [][\A i \in Inv :
             StepsFrom(i, "sb_setq") =>
                /\ store.rawTrackQueue = inv[i].currentQueue
                /\ IsSuffix(store'.rawTrackQueue, inv[i].currentQueue)]_vars

\* the queue held two records in the order of their appends when sendBatch
\* re-read it, and the reconciliation has written what is left of it
C34_Witness ==
    \E i \in Inv :
        /\ inv[i].pc = "sb_setst"
        /\ Len(appended) = 2
        /\ inv[i].currentQueue = appended
        /\ inv[i].queueToSend = appended
        /\ store.rawTrackQueue = <<>>

\* invocation i has begun initialize and has not yet run its stale check
BeforeStaleCheck(l) ==
    \/ l.pc \in {"gtm_hash", "gtm_hash_set", "st_getq"}
    \/ InAddToQueue(l) /\ l.caller = "gtm"

\* the record with identity id is in the persisted queue
Queued(id) == \E r \in Records(store.rawTrackQueue) : r.id = id

\* the record with identity id is in the requests list of a POST
Sent(id) == \E k \in 1..Len(posts) : \E r \in Records(posts[k].requests) : r.id = id

\* C35: progress.  With non-overlapping invocations, a record that is in the
\* persisted queue when the queue's age has reached MAX_BATCH_AGE_MS and an
\* invocation has begun is eventually in a POST: that invocation flushes the
\* queue, in addToQueue or in its stale check, whether it captures an event
\* or not and whether its event is a duplicate, sampled out or appended.
C35_Progress ==
    \A id \in 1..MaxRecords :
        ( /\ Queued(id)
          /\ now - store.queueStartTime >= OPTIONS.MAX_BATCH_AGE_MS
          /\ \E i \in Inv : BeforeStaleCheck(inv[i]) )
        ~> Sent(id)

\* a record has waited in the queue for MAX_BATCH_AGE_MS and the stale check
\* of a later invocation, whose own event was a duplicate, has sent it
C35_Witness ==
    \E i \in Inv :
        /\ OPTIONS.USE_SESSIONS
        /\ inv[i].pc = "success"
        /\ inv[i].duplicate
        /\ inv[i].setCookie.max_age # 0
        /\ \A j \in Inv \ {i} : inv[j].setCookie.max_age = 0
        /\ Len(appended) = 1
        /\ Len(posts) = 1
        /\ posts[1].requests = appended
        /\ store.rawTrackQueue = <<>>
        /\ now - T0 >= OPTIONS.MAX_BATCH_AGE_MS

\* the place of the last occurrence of token h in the history, 0 if none
LastIndex(log, h) ==
    LET S == {k \in 1..Len(log) : log[k] = h}
    IN  IF S = {} THEN 0 ELSE CHOOSE k \in S : \A m \in S : m <= k

\* the distinct tokens recorded after token h was last recorded
OthersSince(log, h) == {log[k] : k \in (LastIndex(log, h) + 1)..Len(log)}

\* C36: the dedup window.  With calls that do not interleave, a token that
\* was recorded by checkAndAddHash and is submitted again is reported as a
\* duplicate, and the seen-set is left as it is, whenever fewer than
\* MAX_HASH_SIZE distinct other tokens have been recorded since.
C36_DedupWindow ==
    [][\A hash \in 1..(MAX_HASH_SIZE + HashOverflow) :
         ( /\ checkAndAddHashLogged(hash)
           /\ LastIndex(appended, hash) # 0
           /\ Cardinality(OthersSince(appended, hash)) < MAX_HASH_SIZE )
         => /\ inv'[1].duplicate
            /\ store' = store
            /\ appended' = appended]_vars

\* the first token is reported as a duplicate after MAX_HASH_SIZE - 1 other
\* tokens were recorded, an insert further and it would have been evicted
C36_Witness ==
    /\ inv[1].token = 1
    /\ inv[1].duplicate
    /\ LastIndex(appended, 1) = 1
    /\ Cardinality(OthersSince(appended, 1)) = MAX_HASH_SIZE - 1
    /\ store.seenHashes = appended

\* C37 (as stated): with session tracking on, an invocation that has appended
\* its GTM event to the queue has, by the end of initialize, set the session
\* cookie again with a max-age of 30 minutes, whether it sent a batch or not.
C37_Original ==
    \A i \in Inv :
        ( /\ OPTIONS.USE_SESSIONS
          /\ OPTIONS.CAPTURE_GTM
          /\ OPTIONS.SAMPLING_RATE <= 1
          /\ inv[i].pc = "success"
          /\ ~inv[i].duplicate )
        => inv[i].setCookie.max_age = SESSION_TIMEOUT_MINS * 60

====
